---- MODULE Spec2Model ----
(***************************************************************************)
(* The link processing pipeline of lava: LinkProcessor.processLinks        *)
(* (src/processor.ts) with the LinkUtils / FileUtils helpers it calls      *)
(* (src/utils.ts).                                                         *)
(*                                                                         *)
(* Text.  A JavaScript string is modelled as a sequence of tokens.  The    *)
(* list / checkbox decoration of a line is kept character by character     *)
(* ("-", " ", "[", "x", "]", "(", ")"), so that trim, startsWith, the      *)
(* decoration regex of sanitizeLink and markAsProcessed are computed as    *)
(* the code computes them.  A URL is one or two tokens: a prefix token     *)
(* that starts with http(s):// and, for video links, the video id.  What   *)
(* `new URL(link)` yields for each URL of the model is tabulated in        *)
(* UrlTable; host names and the part of the link before "?" are kept as    *)
(* character sequences, so that endsWith is the real suffix test.          *)
(*                                                                         *)
(* Environment.  Every awaited external call (title lookup, browser        *)
(* launch, page render, fetch, extraction, file write) has its outcome     *)
(* chosen nondeterministically.  page.close() and browser.close() are      *)
(* taken to succeed.                                                       *)
(***************************************************************************)
EXTENDS Integers, Sequences, FiniteSets, TLC

(* ------------------------------ bounds --------------------------------- *)

\* longest batch handed to processLinks
MaxLines == 2

\* invocations of processLinks in a row: the first on a fresh batch, each
\* later one on the marker lines the one before returned
MaxRuns == 2

\* longest batch of classifier lines
MaxClassified == 1

\* interleaved invocations: render-eligible lines of one invocation, calls
\* one caller makes, browser instances launched in all
MaxItems == 2
MaxCalls == 2
MaxInstances == 3

(* --------------------------- text primitives --------------------------- *)

\* the characters String.prototype.trim and the regex class \s remove
WhiteSpace == {" "}

RECURSIVE trimStart(_)
trimStart(s) ==
    IF s # <<>> /\ Head(s) \in WhiteSpace THEN trimStart(Tail(s)) ELSE s

RECURSIVE trimEnd(_)
trimEnd(s) ==
    IF s # <<>> /\ s[Len(s)] \in WhiteSpace
    THEN trimEnd(SubSeq(s, 1, Len(s) - 1))
    ELSE s

\* String.prototype.trim
trim(s) == trimEnd(trimStart(s))

\* String.prototype.startsWith
startsWith(s, p) == Len(s) >= Len(p) /\ SubSeq(s, 1, Len(p)) = p

\* String.prototype.endsWith
endsWith(s, p) == Len(s) >= Len(p) /\ SubSeq(s, Len(s) - Len(p) + 1, Len(s)) = p

\* the empty string
Empty == <<>>

(* ------------------------------ the URLs ------------------------------- *)
UrlPost == <<"https://a.example/post">>
UrlPage == <<"https://b.example/page">>
UrlShort == <<"https://youtu.be/", "abc">>
UrlWatch == <<"https://www.youtube.com/watch?v=", "abc">>
UrlDocs == <<"https://docs.google.com/d/1">>
UrlPdf == <<"https://a.example/f.pdf">>
\* a subdomain of a blocked domain
UrlSub == <<"https://x.drive.google.com/f">>
\* an image, upper case extension and a query string
UrlPng == <<"https://a.example/i.PNG?w=1">>
\* an embed link whose path ends in a media extension
UrlClip == <<"https://www.youtube.com/embed/", "clip.mp4">>
\* an image under a channel handle
UrlHandlePng == <<"https://www.youtube.com/@handle/a.png">>
\* a short link with a scheme other than http(s)
UrlFtp == <<"ftp://youtu.be/", "abc">>
\* /embed/<id>
UrlEmbed == <<"https://www.youtube.com/embed/", "abc">>
\* /shorts/<id>
UrlShorts == <<"https://youtube.com/shorts/", "abc">>
\* /live/<id>
UrlLive == <<"https://m.youtube.com/live/", "abc">>
\* a channel
UrlChannel == <<"https://www.youtube.com/channel/UC123">>
\* a channel handle with a video id in the query
UrlHandleV == <<"https://www.youtube.com/@handle?v=", "abc">>
\* a host that ends in the letters youtube.com and is no subdomain of it
UrlLookalike == <<"https://notyoutube.com/watch?v=", "abc">>

\* the text of a line that holds no link
Note == <<"note">>

\* tokens that start with http:// or https:// (lower case) and go on with
\* characters other than white space, "]" and ")"
HttpTokens ==
    {"https://a.example/post", "https://b.example/page", "https://youtu.be/",
     "https://www.youtube.com/watch?v=", "https://docs.google.com/d/1",
     "https://a.example/f.pdf", "https://x.drive.google.com/f",
     "https://a.example/i.PNG?w=1", "https://www.youtube.com/embed/",
     "https://www.youtube.com/@handle/a.png", "https://youtube.com/shorts/",
     "https://m.youtube.com/live/", "https://www.youtube.com/channel/UC123",
     "https://www.youtube.com/@handle?v=", "https://notyoutube.com/watch?v="}

\* `new URL(link)` threw
Unparsable ==
    [ok |-> FALSE, hostname |-> <<>>, pathParts |-> <<>>, hasV |-> FALSE,
     v |-> "", stem |-> <<>>]

\* `new URL(link)` for the URLs of the model: hostname (lower case),
\* pathname.split("/").filter(Boolean), searchParams.has("v") / get("v"),
\* and link.split("?")[0].toLowerCase()
UrlTable ==
    UrlPost :>
        [ok |-> TRUE, hostname |-> <<"a", ".", "e", "x", "a", "m", "p", "l", "e">>,
         pathParts |-> <<"post">>, hasV |-> FALSE, v |-> "",
         stem |-> <<"h", "t", "t", "p", "s", ":", "/", "/", "a", ".", "e", "x", "a", "m", "p", "l", "e", "/", "p", "o", "s", "t">>]
    @@ UrlPage :>
        [ok |-> TRUE, hostname |-> <<"b", ".", "e", "x", "a", "m", "p", "l", "e">>,
         pathParts |-> <<"page">>, hasV |-> FALSE, v |-> "",
         stem |-> <<"h", "t", "t", "p", "s", ":", "/", "/", "b", ".", "e", "x", "a", "m", "p", "l", "e", "/", "p", "a", "g", "e">>]
    @@ UrlShort :>
        [ok |-> TRUE, hostname |-> <<"y", "o", "u", "t", "u", ".", "b", "e">>,
         pathParts |-> <<"abc">>, hasV |-> FALSE, v |-> "",
         stem |-> <<"h", "t", "t", "p", "s", ":", "/", "/", "y", "o", "u", "t", "u", ".", "b", "e", "/", "a", "b", "c">>]
    @@ UrlWatch :>
        [ok |-> TRUE, hostname |-> <<"w", "w", "w", ".", "y", "o", "u", "t", "u", "b", "e", ".", "c", "o", "m">>,
         pathParts |-> <<"watch">>, hasV |-> TRUE, v |-> "abc",
         stem |-> <<"h", "t", "t", "p", "s", ":", "/", "/", "w", "w", "w", ".", "y", "o", "u", "t", "u", "b", "e", ".", "c", "o", "m", "/", "w", "a", "t", "c", "h">>]
    @@ UrlDocs :>
        [ok |-> TRUE, hostname |-> <<"d", "o", "c", "s", ".", "g", "o", "o", "g", "l", "e", ".", "c", "o", "m">>,
         pathParts |-> <<"d", "1">>, hasV |-> FALSE, v |-> "",
         stem |-> <<"h", "t", "t", "p", "s", ":", "/", "/", "d", "o", "c", "s", ".", "g", "o", "o", "g", "l", "e", ".", "c", "o", "m", "/", "d", "/", "1">>]
    @@ UrlPdf :>
        [ok |-> TRUE, hostname |-> <<"a", ".", "e", "x", "a", "m", "p", "l", "e">>,
         pathParts |-> <<"f.pdf">>, hasV |-> FALSE, v |-> "",
         stem |-> <<"h", "t", "t", "p", "s", ":", "/", "/", "a", ".", "e", "x", "a", "m", "p", "l", "e", "/", "f", ".", "p", "d", "f">>]
    @@ UrlSub :>
        [ok |-> TRUE, hostname |-> <<"x", ".", "d", "r", "i", "v", "e", ".", "g", "o", "o", "g", "l", "e", ".", "c", "o", "m">>,
         pathParts |-> <<"f">>, hasV |-> FALSE, v |-> "",
         stem |-> <<"h", "t", "t", "p", "s", ":", "/", "/", "x", ".", "d", "r", "i", "v", "e", ".", "g", "o", "o", "g", "l", "e", ".", "c", "o", "m", "/", "f">>]
    @@ UrlPng :>
        [ok |-> TRUE, hostname |-> <<"a", ".", "e", "x", "a", "m", "p", "l", "e">>,
         pathParts |-> <<"i.PNG">>, hasV |-> FALSE, v |-> "",
         stem |-> <<"h", "t", "t", "p", "s", ":", "/", "/", "a", ".", "e", "x", "a", "m", "p", "l", "e", "/", "i", ".", "p", "n", "g">>]
    @@ UrlClip :>
        [ok |-> TRUE, hostname |-> <<"w", "w", "w", ".", "y", "o", "u", "t", "u", "b", "e", ".", "c", "o", "m">>,
         pathParts |-> <<"embed", "clip.mp4">>, hasV |-> FALSE, v |-> "",
         stem |-> <<"h", "t", "t", "p", "s", ":", "/", "/", "w", "w", "w", ".", "y", "o", "u", "t", "u", "b", "e", ".", "c", "o", "m", "/", "e", "m", "b", "e", "d", "/", "c", "l", "i", "p", ".", "m", "p", "4">>]
    @@ UrlHandlePng :>
        [ok |-> TRUE, hostname |-> <<"w", "w", "w", ".", "y", "o", "u", "t", "u", "b", "e", ".", "c", "o", "m">>,
         pathParts |-> <<"@handle", "a.png">>, hasV |-> FALSE, v |-> "",
         stem |-> <<"h", "t", "t", "p", "s", ":", "/", "/", "w", "w", "w", ".", "y", "o", "u", "t", "u", "b", "e", ".", "c", "o", "m", "/", "@", "h", "a", "n", "d", "l", "e", "/", "a", ".", "p", "n", "g">>]
    @@ UrlFtp :>
        [ok |-> TRUE, hostname |-> <<"y", "o", "u", "t", "u", ".", "b", "e">>,
         pathParts |-> <<"abc">>, hasV |-> FALSE, v |-> "",
         stem |-> <<"f", "t", "p", ":", "/", "/", "y", "o", "u", "t", "u", ".", "b", "e", "/", "a", "b", "c">>]
    @@ UrlEmbed :>
        [ok |-> TRUE, hostname |-> <<"w", "w", "w", ".", "y", "o", "u", "t", "u", "b", "e", ".", "c", "o", "m">>,
         pathParts |-> <<"embed", "abc">>, hasV |-> FALSE, v |-> "",
         stem |-> <<"h", "t", "t", "p", "s", ":", "/", "/", "w", "w", "w", ".", "y", "o", "u", "t", "u", "b", "e", ".", "c", "o", "m", "/", "e", "m", "b", "e", "d", "/", "a", "b", "c">>]
    @@ UrlShorts :>
        [ok |-> TRUE, hostname |-> <<"y", "o", "u", "t", "u", "b", "e", ".", "c", "o", "m">>,
         pathParts |-> <<"shorts", "abc">>, hasV |-> FALSE, v |-> "",
         stem |-> <<"h", "t", "t", "p", "s", ":", "/", "/", "y", "o", "u", "t", "u", "b", "e", ".", "c", "o", "m", "/", "s", "h", "o", "r", "t", "s", "/", "a", "b", "c">>]
    @@ UrlLive :>
        [ok |-> TRUE, hostname |-> <<"m", ".", "y", "o", "u", "t", "u", "b", "e", ".", "c", "o", "m">>,
         pathParts |-> <<"live", "abc">>, hasV |-> FALSE, v |-> "",
         stem |-> <<"h", "t", "t", "p", "s", ":", "/", "/", "m", ".", "y", "o", "u", "t", "u", "b", "e", ".", "c", "o", "m", "/", "l", "i", "v", "e", "/", "a", "b", "c">>]
    @@ UrlChannel :>
        [ok |-> TRUE, hostname |-> <<"w", "w", "w", ".", "y", "o", "u", "t", "u", "b", "e", ".", "c", "o", "m">>,
         pathParts |-> <<"channel", "UC123">>, hasV |-> FALSE, v |-> "",
         stem |-> <<"h", "t", "t", "p", "s", ":", "/", "/", "w", "w", "w", ".", "y", "o", "u", "t", "u", "b", "e", ".", "c", "o", "m", "/", "c", "h", "a", "n", "n", "e", "l", "/", "u", "c", "1", "2", "3">>]
    @@ UrlHandleV :>
        [ok |-> TRUE, hostname |-> <<"w", "w", "w", ".", "y", "o", "u", "t", "u", "b", "e", ".", "c", "o", "m">>,
         pathParts |-> <<"@handle">>, hasV |-> TRUE, v |-> "abc",
         stem |-> <<"h", "t", "t", "p", "s", ":", "/", "/", "w", "w", "w", ".", "y", "o", "u", "t", "u", "b", "e", ".", "c", "o", "m", "/", "@", "h", "a", "n", "d", "l", "e">>]
    @@ UrlLookalike :>
        [ok |-> TRUE, hostname |-> <<"n", "o", "t", "y", "o", "u", "t", "u", "b", "e", ".", "c", "o", "m">>,
         pathParts |-> <<"watch">>, hasV |-> TRUE, v |-> "abc",
         stem |-> <<"h", "t", "t", "p", "s", ":", "/", "/", "n", "o", "t", "y", "o", "u", "t", "u", "b", "e", ".", "c", "o", "m", "/", "w", "a", "t", "c", "h">>]

ParseURL(link) == IF link \in DOMAIN UrlTable THEN UrlTable[link] ELSE Unparsable

(* ------------------------------ LinkUtils ------------------------------ *)

blockedDomains ==
    {<<"d", "o", "c", "s", ".", "g", "o", "o", "g", "l", "e", ".", "c", "o", "m">>,
     <<"s", "h", "e", "e", "t", "s", ".", "g", "o", "o", "g", "l", "e", ".", "c", "o", "m">>,
     <<"s", "i", "t", "e", "s", ".", "g", "o", "o", "g", "l", "e", ".", "c", "o", "m">>,
     <<"d", "r", "i", "v", "e", ".", "g", "o", "o", "g", "l", "e", ".", "c", "o", "m">>}

nonHtmlExtensions ==
    {
       <<".", "p", "d", "f">>,
       <<".", "d", "o", "c">>,
       <<".", "d", "o", "c", "x">>,
       <<".", "x", "l", "s">>,
       <<".", "x", "l", "s", "x">>,
       <<".", "p", "p", "t">>,
       <<".", "p", "p", "t", "x">>,
       <<".", "p", "n", "g">>,
       <<".", "j", "p", "g">>,
       <<".", "j", "p", "e", "g">>,
       <<".", "g", "i", "f">>,
       <<".", "s", "v", "g">>,
       <<".", "w", "e", "b", "p">>,
       <<".", "i", "c", "o">>,
       <<".", "m", "p", "3">>,
       <<".", "m", "p", "4">>,
       <<".", "a", "v", "i">>,
       <<".", "m", "o", "v">>,
       <<".", "w", "m", "v">>,
       <<".", "f", "l", "v">>,
       <<".", "z", "i", "p">>,
       <<".", "r", "a", "r">>,
       <<".", "t", "a", "r">>,
       <<".", "g", "z">>,
       <<".", "7", "z">>,
       <<".", "t", "x", "t">>,
       <<".", "c", "s", "v">>,
       <<".", "x", "m", "l">>,
       <<".", "j", "s", "o", "n">>,
       <<".", "e", "x", "e">>,
       <<".", "d", "m", "g">>,
       <<".", "p", "k", "g">>,
       <<".", "d", "e", "b">>,
       <<".", "r", "p", "m">>
    }

\* the characters of the regex /^[-\s\[\]x]+/
Decoration == {"-", " ", "[", "]", "x"}

RECURSIVE stripDecoration(_)
stripDecoration(s) ==
    IF s # <<>> /\ Head(s) \in Decoration THEN stripDecoration(Tail(s)) ELSE s

\* the end of the run of tokens outside `stop` that starts at position i
RECURSIVE runEnd(_, _, _)
runEnd(s, i, stop) ==
    IF i + 1 <= Len(s) /\ s[i + 1] \notin stop
    THEN runEnd(s, i + 1, stop)
    ELSE i

\* matches of /\((https?:\/\/[^\s)]+)\)/, as <<first, last>> of the captured
\* group
markdownMatches(s) ==
    {<<i, runEnd(s, i, WhiteSpace \cup {")"})>> :
        i \in {n \in 2..Len(s) :
                  /\ s[n - 1] = "("
                  /\ s[n] \in HttpTokens
                  /\ runEnd(s, n, WhiteSpace \cup {")"}) + 1 <= Len(s)
                  /\ s[runEnd(s, n, WhiteSpace \cup {")"}) + 1] = ")"}}

\* matches of /(https?:\/\/[^\s\]]+)/, as <<first, last>>
bareMatches(s) ==
    {<<i, runEnd(s, i, WhiteSpace \cup {"]"})>> :
        i \in {n \in 1..Len(s) : s[n] \in HttpTokens}}

\* String.prototype.match returns the leftmost match
leftmost(ms) == CHOOSE m \in ms : \A n \in ms : m[1] <= n[1]

sanitizeLink(link) ==
    LET trimmed == trim(stripDecoration(link))
        md == markdownMatches(trimmed)
        bare == bareMatches(trimmed)
    IN  IF md # {} THEN SubSeq(trimmed, leftmost(md)[1], leftmost(md)[2])
        ELSE IF bare # {} THEN SubSeq(trimmed, leftmost(bare)[1], leftmost(bare)[2])
        ELSE trimmed

\* /^https?:\/\/[^\s/$.?#].[^\s]*$/i
isValidHttpLink(link) ==
    /\ link # <<>>
    /\ Head(link) \in HttpTokens
    /\ \A m \in 1..Len(link) : link[m] \notin WhiteSpace

\* blockedDomains.some(blocked => host === blocked || host.endsWith("." + blocked))
someBlocked(host) ==
    \E blocked \in blockedDomains :
        host = blocked \/ endsWith(host, <<".">> \o blocked)

\* the URLs of the model that parse and whose host is blocked, computed once
\* from the table; a link `new URL` rejects is not blocked
BlockedDomainUrls ==
    {u \in DOMAIN UrlTable : UrlTable[u].ok /\ someBlocked(UrlTable[u].hostname)}

\* faulty variant of isBlockedDomain: no host is blocked
neverBlocked(link) == FALSE

isBlockedDomain(link) == link \in BlockedDomainUrls

YouTuBe == <<"y", "o", "u", "t", "u", ".", "b", "e">>
YouTubeCom == <<"y", "o", "u", "t", "u", "b", "e", ".", "c", "o", "m">>

\* the value the code tests for truth: "" stands for null
getYouTubeId(link) ==
    LET url == ParseURL(link)
        host == url.hostname
        pathParts == url.pathParts
    IN  IF ~url.ok THEN ""
        ELSE IF host = YouTuBe
        THEN (IF Len(pathParts) >= 1 THEN pathParts[1] ELSE "")
        ELSE IF endsWith(host, YouTubeCom)
        THEN (IF url.hasV THEN url.v
              ELSE IF Len(pathParts) >= 1 /\ pathParts[1] \in {"embed", "shorts", "live"}
              THEN (IF Len(pathParts) >= 2 THEN pathParts[2] ELSE "")
              ELSE "")
        ELSE ""

\* segments of the model's paths that start with "@"
AtSegments == {"@handle"}

\* faulty variant of isYouTubeChannel: no link is a channel
neverChannel(link) == FALSE

isYouTubeChannel(link) ==
    LET url == ParseURL(link)
        host == url.hostname
        pathParts == url.pathParts
    IN  /\ url.ok
        /\ (host = YouTuBe \/ endsWith(host, YouTubeCom))
        /\ Len(pathParts) # 0
        /\ \/ pathParts[1] \in {"channel", "c", "user"}
           \/ \E m \in 1..Len(pathParts) : pathParts[m] \in AtSegments

WatchPrefix == "https://www.youtube.com/watch?v="

\* faulty variant of canonicalizeYouTubeUrl: the link is kept as given
keepLink(link, id) == link

\* called with an id at every call site of the pipeline
canonicalizeYouTubeUrl(link, id) ==
    IF id # "" THEN <<WatchPrefix, id>> ELSE link

\* nonHtmlExtensions.some(ext => urlPath.endsWith(ext))
someExtension(urlPath) == \E ext \in nonHtmlExtensions : endsWith(urlPath, ext)

\* the URLs of the model whose path stem carries a non-HTML extension,
\* computed once from the table
NonHtmlUrls == {u \in DOMAIN UrlTable : someExtension(UrlTable[u].stem)}

\* faulty variant of hasNonHtmlExtension: no extension is recognised
noExtension(link) == FALSE

hasNonHtmlExtension(link) ==
    IF link \in DOMAIN UrlTable THEN link \in NonHtmlUrls ELSE someExtension(link)

ProcessedPrefix == <<"-", " ", "[", "x", "]">>

\* faulty variant of isProcessed: no line counts as checked off
neverProcessed(line) == FALSE

isProcessed(line) == startsWith(trim(line), ProcessedPrefix)

markAsProcessed(link) == <<"-", " ", "[", "x", "]", " ">> \o link

\* the replacements of sanitizeFileName that apply to the titles of the
\* model: white space becomes "_", and an empty name becomes "Untitled"
sanitizeFileName(name) ==
    LET under == [m \in 1..Len(name) |->
                     IF name[m] \in WhiteSpace THEN "_" ELSE name[m]]
    IN  IF under = <<>> THEN <<"Untitled">> ELSE under

(* ------------------------------ FileUtils ------------------------------ *)

\* new Date().toISOString().split("T")[0]
Today == <<"2026-11-04">>

\* faulty variant of frontmatterEntries: url is inserted last
urlLastEntries(title, url, domain, author, published, description, image, favicon) ==
    << <<"title", "string", IF title # Empty THEN title ELSE <<"Untitled">> >>,
       <<"source", "string", IF domain # Empty THEN <<"https://">> \o domain ELSE url>>,
       <<"author", "string", author>>,
       <<"published", "string", published>>,
       <<"clipped", "string", Today>>,
       <<"tags", "list", <<"clippings">> >>,
       <<"description", "string", description>>,
       <<"image", "string", image>>,
       <<"favicon", "string", favicon>>,
       <<"url", "string", url>> >>

\* a frontmatter object: the entries <<key, kind, value>> in insertion order
frontmatterEntries(title, url, domain, author, published, description, image, favicon) ==
    << <<"title", "string", IF title # Empty THEN title ELSE <<"Untitled">> >>,
       <<"source", "string", IF domain # Empty THEN <<"https://">> \o domain ELSE url>>,
       <<"url", "string", url>>,
       <<"author", "string", author>>,
       <<"published", "string", published>>,
       <<"clipped", "string", Today>>,
       <<"tags", "list", <<"clippings">> >>,
       <<"description", "string", description>>,
       <<"image", "string", image>>,
       <<"favicon", "string", favicon>> >>

\* the filter that drops empty strings and empty arrays
nonEmptyEntry(e) == e[3] # Empty

cleanFrontmatter(obj) == SelectSeq(obj, nonEmptyEntry)

RECURSIVE listItems(_)
listItems(vs) ==
    IF vs = <<>> THEN <<>>
    ELSE <<"\n", "  - ", Head(vs)>> \o listItems(Tail(vs))

\* one `key: "value"` line, or `key:` followed by the list items
entryText(e) ==
    IF e[2] = "list" THEN <<e[1], ":">> \o listItems(e[3])
    ELSE <<e[1], ": ", "\"">> \o e[3] \o <<"\"">>

RECURSIVE joinLines(_)
joinLines(es) ==
    IF es = <<>> THEN <<>>
    ELSE IF Len(es) = 1 THEN entryText(es[1])
    ELSE entryText(es[1]) \o <<"\n">> \o joinLines(Tail(es))

buildFrontmatter(title, url, domain, author, published, description, image, favicon) ==
    joinLines(cleanFrontmatter(
        frontmatterEntries(title, url, domain, author, published, description, image, favicon)))

buildMarkdownContent(title, url, domain, author, published, description, image, favicon, content) ==
    <<"---", "\n">>
    \o buildFrontmatter(title, url, domain, author, published, description, image, favicon)
    \o <<"\n", "---", "\n", "# ">>
    \o (IF title # Empty THEN title ELSE <<"Untitled">>)
    \o <<"\n", "\n">> \o content

StubPhrase == "Content could not be extracted automatically."

\* hostname of the URL as text, for the `source` field
hostText(url) ==
    CASE url = UrlPost -> <<"a.example">>
      [] url = UrlPage -> <<"b.example">>
      [] url = UrlPdf -> <<"a.example">>
      [] url = UrlDocs -> <<"docs.google.com">>
      [] url = UrlShort -> <<"youtu.be">>
      [] url = UrlWatch -> <<"www.youtube.com">>
      [] url = UrlChannel -> <<"www.youtube.com">>
      [] url = UrlHandleV -> <<"www.youtube.com">>
      [] OTHER -> Empty

stubBody(url) == <<StubPhrase, "\n", "\n", "Link: ">> \o url

buildStubMarkdown(title, url) ==
    LET safeTitle == IF title # Empty THEN title ELSE <<"Untitled", " ", "Link">>
    IN  <<"---", "\n">>
        \o buildFrontmatter(safeTitle, url, hostText(url), Empty, Empty, Empty, Empty, Empty)
        \o <<"\n", "---", "\n", "# ">> \o safeTitle \o <<"\n", "\n">> \o stubBody(url)

\* faulty variant of embedTitle: no placeholder
rawTitle(title) == title

\* const safeTitle = title || "YouTube Video"
embedTitle(title) == IF title # Empty THEN title ELSE <<"YouTube", " ", "Video">>

\* the record buildYouTubeEmbed returns
buildYouTubeEmbed(title, url, id) ==
    LET safeTitle == embedTitle(title)
        canonicalUrl == canonicalizeYouTubeUrl(url, id)
        thumbnailUrl == <<"https://img.youtube.com/vi/", id, "/hqdefault.jpg">>
        frontmatterObj ==
            << <<"title", "string", safeTitle>>,
               <<"source", "string", <<"https://youtube.com">> >>,
               <<"url", "string", canonicalUrl>>,
               <<"clipped", "string", Today>>,
               <<"tags", "list", <<"clippings", "youtube">> >>,
               <<"image", "string", thumbnailUrl>> >>
        frontmatter ==
            buildFrontmatter(safeTitle, canonicalUrl, <<"youtube.com">>,
                             Empty, Empty, Empty, thumbnailUrl, Empty)
        body == <<"![">> \o safeTitle \o <<"](">> \o canonicalUrl \o <<")">>
    IN  [frontmatter |-> frontmatter,
         frontmatterObj |-> frontmatterObj,
         content |-> <<"---", "\n">> \o frontmatter
                     \o <<"\n", "---", "\n", "# ">> \o safeTitle
                     \o <<"\n", "\n">> \o body,
         body |-> body,
         title |-> safeTitle]

(* ---------------------------- the environment -------------------------- *)

\* how the oEmbed title lookup goes: the request fails, the status is not
\* OK, the answer has no title, a blank one, or a title
TitleOutcomes == {"neterr", "http", "noTitle", "blank", "ok"}

\* FileUtils.fetchYouTubeTitle: the trimmed title, or Empty for null
fetchYouTubeTitle(outcome) == IF outcome = "ok" THEN <<"Talk">> ELSE Empty

\* page.goto / page.evaluate / Defuddle of the render strategy: the
\* navigation rejects (timeout, crash, challenge page), the response is not
\* text/html, the extraction has no content, or it has content
RenderOutcomes == {"error", "nonHtml", "empty", "ok"}

\* fetch / Defuddle of the fetch strategy: the request rejects, the status
\* is not ok, the response is not text/html, the extraction has no content,
\* or it has content
FetchOutcomes == {"neterr", "http", "nonHtml", "empty", "ok"}

\* what Defuddle returns for a page that has content
Extracted ==
    [title |-> <<"Post">>, domain |-> <<"a.example">>, author |-> Empty,
     published |-> Empty, description |-> <<"about">>, image |-> Empty,
     favicon |-> Empty, content |-> <<"text">>]

\* one choice of every external outcome a single line can meet;
\* write / stubWrite: whether mkdirSync + writeFileSync succeed
Environments ==
    [ytTitle : TitleOutcomes, render : RenderOutcomes, renderWrite : BOOLEAN,
     fetch : FetchOutcomes, write : BOOLEAN, stubWrite : BOOLEAN]

\* every external call succeeds
AllOk ==
    [ytTitle |-> "ok", render |-> "ok", renderWrite |-> TRUE, fetch |-> "ok",
     write |-> TRUE, stubWrite |-> TRUE]

\* A call reads only some of the choices; those it never reads are fixed to
\* their value in AllOk in the sets below, so that no outcome is enumerated
\* twice.

\* the embed branch reads the title lookup and one write
EmbedEnvironments ==
    {env \in Environments :
        env.render = "ok" /\ env.renderWrite /\ env.fetch = "ok" /\ env.stubWrite}

\* a page handled by processSingleLinkWithFetch without stub: no title
\* lookup, no render and no stub; the write is read only after a successful
\* extraction
FetchEnvironments ==
    {env \in Environments :
        /\ env.ytTitle = "ok"
        /\ env.render = "ok" /\ env.renderWrite /\ env.stubWrite
        /\ (env.fetch # "ok" => env.write)}

\* a page handled by processSingleLinkWithPuppeteer: no title lookup; the
\* write of the render strategy is read only after a successful extraction,
\* the fallback only after a failed render attempt, the write of the stub
\* only after a failed fallback
RenderEnvironments ==
    {env \in Environments :
        /\ env.ytTitle = "ok"
        /\ (env.render # "ok" => env.renderWrite)
        /\ (env.render = "nonHtml" \/ (env.render = "ok" /\ env.renderWrite)
              => env.fetch = "ok" /\ env.write /\ env.stubWrite)
        /\ (env.fetch # "ok" => env.write)
        /\ (env.fetch = "nonHtml" \/ (env.fetch = "ok" /\ env.write)
              => env.stubWrite)}

\* with saveToDisk false no write is attempted
diskless(env) == env.write /\ env.renderWrite /\ env.stubWrite

EmbedEnvironmentsNoDisk == {env \in EmbedEnvironments : diskless(env)}
FetchEnvironmentsNoDisk == {env \in FetchEnvironments : diskless(env)}
RenderEnvironmentsNoDisk == {env \in RenderEnvironments : diskless(env)}

\* the paths that return before any external call
SkipKinds == {"processed", "nonUrl", "blocked", "nonHtmlExt"}

\* the outcomes a call can meet, given the path it takes when every external
\* call succeeds (`kind`) and the outcomes `pages` a page can meet: none on
\* a path that returns before any external call, title and write on the
\* embed path
environmentsOf(kind, saveToDisk, pages, pagesNoDisk) ==
    IF kind \in SkipKinds THEN {AllOk}
    ELSE IF kind = "embed"
    THEN IF saveToDisk THEN EmbedEnvironments ELSE EmbedEnvironmentsNoDisk
    ELSE IF saveToDisk THEN pages ELSE pagesNoDisk

(* ----------------------- LinkProcessor, per line ----------------------- *)

\* what a call on one line returns, with the effects it had on the way:
\* kind names the path taken, the counters the external calls made, writes
\* the files written, tabs the browser tabs left open; renderFailed and
\* fetchFailed tell that the catch block of the render attempt, of the fetch
\* attempt, was entered, titleFailed that the title lookup returned null
NoResult ==
    [threw |-> FALSE, updatedLink |-> Empty,
     hasMarkdown |-> FALSE, markdown |-> Empty,
     hasFrontmatter |-> FALSE, frontmatter |-> <<>>, body |-> Empty,
     kind |-> "none", titleCalls |-> 0, renderCalls |-> 0, fetchCalls |-> 0,
     extractCalls |-> 0, writes |-> <<>>, writeCalls |-> 0, tabs |-> 0,
     renderFailed |-> FALSE, fetchFailed |-> FALSE, titleFailed |-> FALSE]

\* faulty variant of skipResult: the line comes back checked off
skipMarked(line, returnMarkdown, kind) ==
    [NoResult EXCEPT !.updatedLink = markAsProcessed(line),
                     !.hasMarkdown = returnMarkdown, !.kind = kind]

\* return { updatedLink: line, markdown: returnMarkdown ? "" : undefined }
skipResult(line, returnMarkdown, kind) ==
    [NoResult EXCEPT !.updatedLink = line, !.hasMarkdown = returnMarkdown,
                     !.kind = kind]

buildFileContent(result, url) ==
    buildMarkdownContent(result.title, url, result.domain, result.author,
                         result.published, result.description, result.image,
                         result.favicon, result.content)

\* faulty variant of savedFiles: the file is written whatever saveToDisk says
alwaysSaved(saveToDisk, fileName, content) ==
    <<[file |-> fileName, content |-> content]>>

\* if (saveToDisk) { mkdirSync(dir); writeFileSync(filePath, content) }: the
\* files a call that got this far has written
savedFiles(saveToDisk, fileName, content) ==
    IF saveToDisk THEN <<[file |-> fileName, content |-> content]>> ELSE <<>>

\* the YouTube branch shared by both per-line functions
embedResult(task, youtubeId, returnMarkdown, saveToDisk, env) ==
    LET canonical == canonicalizeYouTubeUrl(task, youtubeId)
        ytTitle == fetchYouTubeTitle(env.ytTitle)
        embed == buildYouTubeEmbed(ytTitle, canonical, youtubeId)
        fileName == sanitizeFileName(embed.title) \o <<".md">>
    IN  IF saveToDisk /\ ~env.write
        THEN [NoResult EXCEPT !.threw = TRUE, !.kind = "threw",
                              !.titleCalls = 1, !.writeCalls = 1,
                              !.titleFailed = (ytTitle = Empty)]
        ELSE [NoResult EXCEPT
                 !.titleFailed = (ytTitle = Empty),
                 !.updatedLink = markAsProcessed(canonical),
                 !.hasMarkdown = returnMarkdown,
                 !.markdown = IF returnMarkdown THEN embed.content ELSE Empty,
                 !.hasFrontmatter = TRUE,
                 !.frontmatter = embed.frontmatterObj,
                 !.body = embed.body,
                 !.kind = "embed",
                 !.titleCalls = 1,
                 !.writeCalls = IF saveToDisk THEN 1 ELSE 0,
                 !.writes = savedFiles(saveToDisk, fileName, embed.content)]

\* faulty variant of fetchCatch: the stub is produced whatever allowStub says
alwaysStub(line, task, returnMarkdown, saveToDisk, allowStub, env, done) ==
    [done EXCEPT !.fetchFailed = TRUE,
                 !.updatedLink = markAsProcessed(task),
                 !.hasMarkdown = returnMarkdown,
                 !.hasFrontmatter = TRUE,
                 !.body = buildStubMarkdown(Empty, task),
                 !.kind = "stub"]

\* the catch block of processSingleLinkWithFetch; `done` holds the calls
\* made in the try block
fetchCatch(line, task, returnMarkdown, saveToDisk, allowStub, env, done) ==
    LET stub == buildStubMarkdown(Empty, task)
        fileName == sanitizeFileName(<<"Link_Fallback">>) \o <<".md">>
    IN  IF ~allowStub
        THEN [done EXCEPT !.updatedLink = line, !.hasMarkdown = returnMarkdown,
                          !.kind = "failed", !.fetchFailed = TRUE]
        ELSE IF saveToDisk /\ ~env.stubWrite
        THEN [done EXCEPT !.threw = TRUE, !.kind = "threw",
                          !.writeCalls = @ + 1, !.fetchFailed = TRUE]
        ELSE [done EXCEPT
                 !.fetchFailed = TRUE,
                 !.updatedLink = markAsProcessed(task),
                 !.hasMarkdown = returnMarkdown,
                 !.markdown = IF returnMarkdown THEN stub ELSE Empty,
                 !.hasFrontmatter = TRUE,
                 !.frontmatter = <<>>,
                 !.body = stub,
                 !.kind = "stub",
                 !.writeCalls = IF saveToDisk THEN @ + 1 ELSE @,
                 !.writes = savedFiles(saveToDisk, fileName, stub)]

\* faulty variant of nonHtmlSkip: the line comes back checked off
nonHtmlMarked(line, returnMarkdown, done) ==
    [done EXCEPT !.updatedLink = markAsProcessed(line),
                 !.hasMarkdown = returnMarkdown, !.kind = "nonHtmlType"]

\* the return on a content type that is not text/html, by either strategy
nonHtmlSkip(line, returnMarkdown, done) ==
    [done EXCEPT !.updatedLink = line, !.hasMarkdown = returnMarkdown,
                 !.kind = "nonHtmlType"]

\* the value returned after a successful extraction, by either strategy
articleResult(task, url, returnMarkdown, saveToDisk, done) ==
    LET result == Extracted
        fileContent == buildFileContent(result, url)
        fileName == sanitizeFileName(result.title) \o <<".md">>
    IN  [done EXCEPT
            !.updatedLink = markAsProcessed(task),
            !.hasMarkdown = returnMarkdown,
            !.markdown = IF returnMarkdown THEN fileContent ELSE Empty,
            !.hasFrontmatter = TRUE,
            !.frontmatter =
                cleanFrontmatter(frontmatterEntries(
                    result.title, url, result.domain, result.author,
                    result.published, result.description, result.image,
                    result.favicon)),
            !.body = result.content,
            !.kind = "article",
            !.writeCalls = IF saveToDisk THEN @ + 1 ELSE @,
            !.writes = savedFiles(saveToDisk, fileName, fileContent)]

processSingleLinkWithFetch(link, returnMarkdown, saveToDisk, allowStub, env) ==
    LET line == trim(link)
        task == sanitizeLink(line)
        youtubeId == getYouTubeId(task)
        isChannel == isYouTubeChannel(task)
        fetched == [NoResult EXCEPT !.fetchCalls = 1]
        extracted == [fetched EXCEPT !.extractCalls = 1]
    IN  IF isProcessed(line) THEN skipResult(line, returnMarkdown, "processed")
        ELSE IF ~isValidHttpLink(task) THEN skipResult(line, returnMarkdown, "nonUrl")
        ELSE IF youtubeId # "" /\ ~isChannel
        THEN embedResult(task, youtubeId, returnMarkdown, saveToDisk, env)
        ELSE IF isBlockedDomain(task) THEN skipResult(line, returnMarkdown, "blocked")
        ELSE IF hasNonHtmlExtension(task)
        THEN skipResult(line, returnMarkdown, "nonHtmlExt")
        ELSE CASE env.fetch \in {"neterr", "http"} ->
                    fetchCatch(line, task, returnMarkdown, saveToDisk, allowStub,
                               env, fetched)
               [] env.fetch = "nonHtml" ->
                    nonHtmlSkip(line, returnMarkdown, fetched)
               [] env.fetch = "empty" ->
                    fetchCatch(line, task, returnMarkdown, saveToDisk, allowStub,
                               env, extracted)
               [] env.fetch = "ok" ->
                    IF saveToDisk /\ ~env.write
                    THEN fetchCatch(line, task, returnMarkdown, saveToDisk,
                                    allowStub, env,
                                    [extracted EXCEPT !.writeCalls = 1])
                    ELSE articleResult(task, task, returnMarkdown, saveToDisk,
                                       extracted)

\* faulty variant of puppeteerCatch: the render is attempted once more before
\* the fallback
puppeteerRetry(link, returnMarkdown, saveToDisk, env, done) ==
    LET fallback == processSingleLinkWithFetch(link, returnMarkdown, saveToDisk, TRUE, env)
    IN  [fallback EXCEPT !.renderFailed = TRUE,
                         !.renderCalls = done.renderCalls + 1,
                         !.extractCalls = @ + done.extractCalls,
                         !.writeCalls = @ + done.writeCalls,
                         !.tabs = done.tabs]

\* the catch block of processSingleLinkWithPuppeteer: the fallback to fetch,
\* with what the render attempt did added to what the fallback does
puppeteerCatch(link, returnMarkdown, saveToDisk, env, done) ==
    LET fallback == processSingleLinkWithFetch(link, returnMarkdown, saveToDisk, TRUE, env)
    IN  [fallback EXCEPT !.renderFailed = TRUE,
                         !.renderCalls = done.renderCalls,
                         !.extractCalls = @ + done.extractCalls,
                         !.writeCalls = @ + done.writeCalls,
                         !.tabs = done.tabs]

processSingleLinkWithPuppeteer(link, returnMarkdown, saveToDisk, env) ==
    LET line == trim(link)
        task == sanitizeLink(line)
        youtubeId == getYouTubeId(task)
        isChannel == isYouTubeChannel(task)
        \* browser.newPage() and page.goto(): a tab is open
        rendered == [NoResult EXCEPT !.renderCalls = 1, !.tabs = 1]
        extracted == [rendered EXCEPT !.extractCalls = 1]
    IN  IF isProcessed(line) THEN skipResult(line, returnMarkdown, "processed")
        ELSE IF ~isValidHttpLink(task) THEN skipResult(line, returnMarkdown, "nonUrl")
        ELSE IF youtubeId # "" /\ ~isChannel
        THEN embedResult(task, youtubeId, returnMarkdown, saveToDisk, env)
        ELSE IF isBlockedDomain(task) THEN skipResult(line, returnMarkdown, "blocked")
        ELSE IF hasNonHtmlExtension(task)
        THEN skipResult(line, returnMarkdown, "nonHtmlExt")
        ELSE CASE env.render = "error" ->
                    puppeteerCatch(link, returnMarkdown, saveToDisk, env, rendered)
               [] env.render = "nonHtml" ->
                    \* page.close() before the return
                    nonHtmlSkip(line, returnMarkdown, [rendered EXCEPT !.tabs = 0])
               [] env.render = "empty" ->
                    puppeteerCatch(link, returnMarkdown, saveToDisk, env, extracted)
               [] env.render = "ok" ->
                    IF saveToDisk /\ ~env.renderWrite
                    THEN puppeteerCatch(link, returnMarkdown, saveToDisk, env,
                                        [extracted EXCEPT !.writeCalls = 1])
                    ELSE \* page.close() after the write
                         [articleResult(task, task, returnMarkdown, saveToDisk,
                                        extracted) EXCEPT !.tabs = 0]

(* ------------------------------ the lines ------------------------------ *)

LineBare == UrlPost
LineTodo == <<"-", " ", "[", " ", "]", " ">> \o UrlPage \o <<" ">>
LineDone == <<"-", " ", "[", "x", "]", " ">> \o UrlPost
LineVideo == <<"-", " ">> \o UrlShort
LineBlocked == <<"[", "t", "]", "(">> \o UrlDocs \o <<")">>
LinePdf == UrlPdf
LineNote == Note

\* the lines a caller may hand to processLinks
InputLines ==
    {LineBare, LineTodo, LineDone, LineVideo, LineBlocked, LinePdf, LineNote}

\* the batches: every sequence of at most MaxLines input lines
Batches == UNION {[1..n -> InputLines] : n \in 0..MaxLines}

\* lines for the classifier: the lines above and one bare line for each
\* further form of link the classifier tells apart
ClassifierLines ==
    InputLines \cup
    {UrlSub, UrlPng, UrlClip, UrlHandlePng, UrlFtp, UrlEmbed, UrlShorts,
     UrlLive, UrlWatch, UrlChannel, UrlHandleV, UrlLookalike}

ClassifierBatches == UNION {[1..n -> ClassifierLines] : n \in 0..MaxClassified}

(* ------------------------------ the state ------------------------------ *)

VARIABLES
    pc,               \* where the invocation of processLinks stands
    run,              \* invocations started on this LinkProcessor
    rerun,            \* this invocation was given the last one's updatedLinks
    links,            \* the argument `links`
    finalParser,      \* "puppeteer" or "jsdom"
    returnMarkdown,   \* finalReturnFormat === "md"
    finalSaveToDisk,
    processedCount,   \* lines the loop over `links` has consumed
    pending,          \* the queue of the puppeteer branch: positions in links
    drained,          \* items of `pending` processed
    updatedLinks,
    markdownResults,
    jsonResults,
    browser,          \* this.browser is not null
    openTabs,         \* pages of the browser not closed
    origin,           \* for each entry of updatedLinks, the input position it reports
    last,             \* the line handled last: its position and what the handling did
    written,          \* names of the files this invocation wrote, in order
    launches          \* browsers launched by this invocation

vars ==
    <<pc, run, rerun, links, finalParser, returnMarkdown, finalSaveToDisk,
      processedCount, pending, drained, updatedLinks, markdownResults,
      jsonResults, browser, openTabs, origin, last, written, launches>>

(* ------------- the state of interleaved invocations -------------------- *)

\* processLinks is async: invocations on one LinkProcessor (two requests to
\* the server, which holds one processor) interleave at their awaits.  For
\* these the browser is followed instance by instance.
VARIABLES
    handle,           \* this.browser: 0 for null, else the instance it refers to
    live,             \* the browser instances launched and not closed
    instances,        \* browser instances launched so far
    inv               \* per invocation: where it stands, its local `browser`,
                      \* the items left in its queue, whether it is unwinding
                      \* an exception, the invocations it has started

sharedVars == <<handle, live, instances, inv>>

\* the invocations that may be in flight together
Invocations == {1, 2}

IdleInvocation == [pc |-> "idle", own |-> 0, left |-> 0, failed |-> FALSE, calls |-> 0]

SharedInit ==
    /\ handle = 0
    /\ live = {}
    /\ instances = 0
    /\ inv = [i \in Invocations |-> IdleInvocation]

(* ------------------------ the state of the callers --------------------- *)

VARIABLES
    request           \* the POST /api request the server is handling, if any

callerVars == <<request>>

\* no request: processLinks is called directly
NoRequest ==
    [posted |-> FALSE, valid |-> FALSE, count |-> 0, returnFormat |-> "none",
     configured |-> "json"]

(* ------------------------ the state of the watcher --------------------- *)

VARIABLES
    file,             \* the links file: its lines
    watcher           \* the FileWatcher: its configuration, the locals of the
                      \* processFile call in progress, whether lastWriteTime
                      \* is less than 500 ms ago, and what became of the
                      \* links the user added

watchVars == <<file, watcher>>

VARIABLES
    legacy,           \* a legacy watcher script (src/index.js, the second script
                      \* of src/server.ts): its isProcessing flag, the links
                      \* file, the change handlers that are past the guard
    plugin            \* the Obsidian plugin: its processedLinks, the bookmark
                      \* file, the processLinks runs in progress

outerVars == <<legacy, plugin>>

\* no legacy script started.  alive is FALSE once the runtime has ended the
\* process; changes counts the change events, skipped the handlers the
\* guard turned away
NoLegacy ==
    [on |-> FALSE, script |-> "index.js", alive |-> TRUE,
     isProcessing |-> FALSE, file |-> <<>>, handlers |-> <<>>,
     changes |-> 0, skipped |-> 0]

\* the plugin not loaded.  sent counts the requests to the lava server for
\* each link, started the processLinks runs started
NoPlugin ==
    [on |-> FALSE, file |-> <<>>, processedLinks |-> {}, runs |-> <<>>,
     timer |-> FALSE, started |-> 0, edits |-> 0,
     sent |-> [url \in {UrlPost, UrlShort} |-> 0]]

\* no watcher started.  mode tells watching from polling; processedLinks is
\* the set of that name.  read is the file as processFile read it; edits
\* counts the user's edits; fresh counts the links the user added that are
\* in the file and that no processFile call has read, erased those that a
\* write of the watcher removed from the file before any call read them;
\* earlier holds the links that poll cycles now over have processed
NoWatcher ==
    [on |-> FALSE, mode |-> "watch", parser |-> "puppeteer",
     saveToDisk |-> TRUE,
     cycle |-> FALSE, lines |-> <<>>, pending |-> <<>>, read |-> <<>>,
     recent |-> FALSE, edits |-> 0, fresh |-> 0, erased |-> 0,
     processedLinks |-> {}, earlier |-> {}]

\* lines 358-365 of part_005, the callback processFile hands to processLinks:
\* pending[idx] names the file line, the marker goes into the lines read at
\* the start of the call, and these lines are written to the file.  index
\* counts from 1 here.  The callback of processMarkdownFile (lines 390-394)
\* adds its second argument to processedLinks.  Callers other than the
\* watcher pass no callback.
onLinkProcessed(index, marker) ==
    IF watcher.cycle /\ watcher.mode = "poll"
    THEN /\ watcher' = [watcher EXCEPT !.processedLinks = @ \cup {marker}]
         /\ UNCHANGED file
    ELSE IF watcher.cycle
    THEN LET item == watcher.pending[index]
             checked == [watcher.lines EXCEPT ![item] = marker]
         IN  /\ file' = checked
             /\ watcher' = [watcher EXCEPT !.lines = checked,
                                           !.recent = TRUE,
                                           !.fresh = 0,
                                           !.erased = @ + watcher.fresh]
    ELSE UNCHANGED watchVars

\* no line handled yet
NoLine == [at |-> 0, did |-> NoResult]

Init ==
    /\ pc = "idle"
    /\ run = 0
    /\ rerun = FALSE
    /\ links = <<>>
    /\ finalParser = "puppeteer"
    /\ returnMarkdown = FALSE
    /\ finalSaveToDisk = TRUE
    /\ processedCount = 0
    /\ pending = <<>>
    /\ drained = 0
    /\ updatedLinks = <<>>
    /\ markdownResults = <<>>
    /\ jsonResults = <<>>
    /\ browser = FALSE
    /\ openTabs = 0
    /\ origin = <<>>
    /\ last = NoLine
    /\ written = <<>>
    /\ launches = 0
    /\ SharedInit
    /\ request = NoRequest
    /\ file = <<LineDone>>
    /\ watcher = NoWatcher
    /\ legacy = NoLegacy
    /\ plugin = NoPlugin

(* ---------------------------- processLinks ----------------------------- *)

\* lines 494-509: the locals of a fresh invocation
Start(batch, parser, markdown, save, again) ==
    /\ run < MaxRuns
    /\ run' = run + 1
    /\ rerun' = again
    /\ links' = batch
    /\ finalParser' = parser
    /\ returnMarkdown' = markdown
    /\ finalSaveToDisk' = save
    /\ processedCount' = 0
    /\ pending' = <<>>
    /\ drained' = 0
    /\ updatedLinks' = <<>>
    /\ markdownResults' = <<>>
    /\ jsonResults' = <<>>
    /\ origin' = <<>>
    /\ last' = NoLine
    /\ written' = <<>>
    /\ launches' = 0
    /\ pc' = IF parser = "puppeteer" THEN "classify" ELSE "jsdom"
    /\ UNCHANGED <<browser, openTabs>>
    /\ UNCHANGED sharedVars

\* the first caller hands a batch to processLinks
Invoke ==
    /\ pc = "idle"
    /\ \E batch \in Batches, parser \in {"puppeteer", "jsdom"},
          markdown \in BOOLEAN, save \in BOOLEAN :
           Start(batch, parser, markdown, save, FALSE)
    /\ UNCHANGED <<callerVars, outerVars, watchVars>>

\* the first caller hands a batch of classifier lines to processLinks
InvokeClassifier ==
    /\ pc = "idle"
    /\ \E batch \in ClassifierBatches, parser \in {"puppeteer", "jsdom"},
          markdown \in BOOLEAN, save \in BOOLEAN :
           Start(batch, parser, markdown, save, FALSE)
    /\ UNCHANGED <<callerVars, outerVars, watchVars>>

\* a caller hands the marker lines of the invocation that just returned to
\* processLinks
Reinvoke ==
    /\ pc = "returned"
    /\ \E parser \in {"puppeteer", "jsdom"}, markdown \in BOOLEAN, save \in BOOLEAN :
           Start(updatedLinks, parser, markdown, save, TRUE)
    /\ UNCHANGED <<callerVars, outerVars, watchVars>>

\* the line the loop is at, and what the loop computes from it
idx == processedCount + 1
link == links[idx]
line == trim(link)
task == sanitizeLink(line)

\* faulty variant of Push: the marker is dropped
PushNothing(marker, n) == UNCHANGED <<updatedLinks, origin, file, watcher>>

\* updatedLinks.push(marker); onLinkProcessed(updatedLinks.length - 1, marker)
Push(marker, n) ==
    /\ updatedLinks' = Append(updatedLinks, marker)
    /\ origin' = Append(origin, n)
    /\ onLinkProcessed(Len(updatedLinks) + 1, marker)

\* records what the handling of position n did
Record(r, n) ==
    /\ last' = [at |-> n, did |-> r]
    /\ written' = written \o [m \in 1..Len(r.writes) |-> r.writes[m].file]

\* pushes the results of a per-line call (lines 600-611 and 637-648)
Collect(r, n) ==
    /\ Push(r.updatedLink, n)
    /\ markdownResults' =
          IF returnMarkdown /\ r.hasMarkdown
          THEN Append(markdownResults, r.markdown)
          ELSE markdownResults
    /\ jsonResults' =
          IF ~returnMarkdown /\ r.hasFrontmatter /\ r.body # Empty
          THEN Append(jsonResults,
                      [url |-> links[n], frontmatter |-> r.frontmatter,
                       body |-> r.body])
          ELSE jsonResults

InClassify == pc = "classify" /\ processedCount < Len(links)

\* faulty variant of Skip: the line is pushed with one more check mark
SkipMarked(kind) ==
    /\ Push(markAsProcessed(line), idx)
    /\ last' = [at |-> idx, did |-> [NoResult EXCEPT !.updatedLink = line, !.kind = kind]]
    /\ processedCount' = idx
    /\ UNCHANGED <<pc, run, rerun, links, finalParser, returnMarkdown,
                   finalSaveToDisk, pending, drained, markdownResults,
                   jsonResults, browser, openTabs, written, launches>>

\* a line the classification loop pushes unchanged
Skip(kind) ==
    /\ Push(line, idx)
    /\ last' = [at |-> idx, did |-> [NoResult EXCEPT !.updatedLink = line, !.kind = kind]]
    /\ processedCount' = idx
    /\ UNCHANGED <<pc, run, rerun, links, finalParser, returnMarkdown,
                   finalSaveToDisk, pending, drained, markdownResults,
                   jsonResults, browser, openTabs, written, launches>>

\* lines 519-528
AlreadyChecked ==
    /\ InClassify
    /\ isProcessed(line)
    /\ Skip("processed")
    /\ UNCHANGED <<sharedVars, callerVars, outerVars>>

\* lines 530-563: the embed is built and saved inside the classification loop
EmbedYouTube ==
    /\ InClassify
    /\ ~isProcessed(line)
    /\ getYouTubeId(task) # "" /\ ~isYouTubeChannel(task)
    /\ \E r \in {embedResult(task, getYouTubeId(task), returnMarkdown,
                              finalSaveToDisk, env) :
                      env \in environmentsOf("embed", finalSaveToDisk, {}, {})} :
              /\ Record(r, idx)
              /\ IF r.threw
                 THEN /\ pc' = "threw"
                      /\ UNCHANGED <<processedCount, updatedLinks, origin,
                                     markdownResults, jsonResults, watchVars>>
                 ELSE /\ pc' = pc
                      /\ processedCount' = idx
                      /\ Push(r.updatedLink, idx)
                      /\ markdownResults' =
                            IF returnMarkdown
                            THEN Append(markdownResults, r.markdown)
                            ELSE markdownResults
                      /\ jsonResults' =
                            IF returnMarkdown THEN jsonResults
                            ELSE Append(jsonResults,
                                        [url |-> link,
                                         frontmatter |-> r.frontmatter,
                                         body |-> r.body])
    /\ UNCHANGED <<run, rerun, links, finalParser, returnMarkdown,
                   finalSaveToDisk, pending, drained, browser, openTabs,
                   launches>>
    /\ UNCHANGED <<sharedVars, callerVars, outerVars>>

NotVideo == getYouTubeId(task) = "" \/ isYouTubeChannel(task)

\* lines 565-570
SkipNonUrl ==
    /\ InClassify
    /\ ~isProcessed(line) /\ NotVideo
    /\ ~isValidHttpLink(task)
    /\ Skip("nonUrl")
    /\ UNCHANGED <<sharedVars, callerVars, outerVars>>

\* lines 572-577
SkipBlockedDomain ==
    /\ InClassify
    /\ ~isProcessed(line) /\ NotVideo /\ isValidHttpLink(task)
    /\ isBlockedDomain(task)
    /\ Skip("blocked")
    /\ UNCHANGED <<sharedVars, callerVars, outerVars>>

\* lines 579-584
SkipNonHtml ==
    /\ InClassify
    /\ ~isProcessed(line) /\ NotVideo /\ isValidHttpLink(task)
    /\ ~isBlockedDomain(task)
    /\ hasNonHtmlExtension(task)
    /\ Skip("nonHtmlExt")
    /\ UNCHANGED <<sharedVars, callerVars, outerVars>>

\* faulty variant of Enqueue: the line is put at the head of the queue
EnqueueFirst ==
    /\ InClassify
    /\ ~isProcessed(line) /\ NotVideo /\ isValidHttpLink(task)
    /\ ~isBlockedDomain(task) /\ ~hasNonHtmlExtension(task)
    /\ pending' = <<idx>> \o pending
    /\ processedCount' = idx
    /\ UNCHANGED <<pc, run, rerun, links, finalParser, returnMarkdown,
                   finalSaveToDisk, drained, updatedLinks, markdownResults,
                   jsonResults, browser, openTabs, origin, last, written,
                   launches>>
    /\ UNCHANGED <<sharedVars, callerVars, outerVars, watchVars>>

\* line 586
Enqueue ==
    /\ InClassify
    /\ ~isProcessed(line) /\ NotVideo /\ isValidHttpLink(task)
    /\ ~isBlockedDomain(task) /\ ~hasNonHtmlExtension(task)
    /\ pending' = Append(pending, idx)
    /\ processedCount' = idx
    /\ UNCHANGED <<pc, run, rerun, links, finalParser, returnMarkdown,
                   finalSaveToDisk, drained, updatedLinks, markdownResults,
                   jsonResults, browser, openTabs, origin, last, written,
                   launches>>
    /\ UNCHANGED <<sharedVars, callerVars, outerVars, watchVars>>

\* faulty variant of hasPending: the queue always counts as non-empty
alwaysPending(queue) == TRUE

\* line 589: pending.length > 0
hasPending(queue) == Len(queue) > 0

\* lines 589-590 and 619-621, with initializePuppeteer (lines 18-145): the
\* handle is returned if there is one, else a browser is launched, which may
\* fail (no executable found, launch rejected)
Dispatch ==
    /\ pc = "classify" /\ processedCount = Len(links)
    /\ IF ~hasPending(pending)
       THEN /\ pc' = "returned"
            /\ UNCHANGED <<browser, launches>>
       ELSE IF browser
       THEN /\ pc' = "drain"
            /\ UNCHANGED <<browser, launches>>
       ELSE \E launched \in BOOLEAN :
               IF launched
               THEN /\ browser' = TRUE
                    /\ launches' = launches + 1
                    /\ pc' = "drain"
               ELSE /\ pc' = "threw"
                    /\ UNCHANGED <<browser, launches>>
    /\ UNCHANGED <<run, rerun, links, finalParser, returnMarkdown,
                   finalSaveToDisk, processedCount, pending, drained,
                   updatedLinks, markdownResults, jsonResults, openTabs,
                   origin, last, written>>
    /\ UNCHANGED <<sharedVars, callerVars, outerVars, watchVars>>

\* lines 593-612: one item of the queue, through processSingleLinkWithPuppeteer
Drain ==
    /\ pc = "drain" /\ drained < Len(pending)
    /\ \E r \in {processSingleLinkWithPuppeteer(
                          links[pending[drained + 1]], returnMarkdown,
                          finalSaveToDisk, env) :
                      env \in environmentsOf(
                                  processSingleLinkWithPuppeteer(
                                      links[pending[drained + 1]], returnMarkdown,
                                      finalSaveToDisk, AllOk).kind,
                                  finalSaveToDisk, RenderEnvironments,
                                  RenderEnvironmentsNoDisk)} :
          LET n == pending[drained + 1]
          IN  /\ Record(r, n)
              /\ openTabs' = openTabs + r.tabs
              /\ IF r.threw
                 THEN /\ pc' = "finally"
                      /\ UNCHANGED <<drained, updatedLinks, origin,
                                     markdownResults, jsonResults, watchVars>>
                 ELSE /\ pc' = pc
                      /\ drained' = drained + 1
                      /\ Collect(r, n)
    /\ UNCHANGED <<run, rerun, links, finalParser, returnMarkdown,
                   finalSaveToDisk, processedCount, pending, browser, launches>>
    /\ UNCHANGED <<sharedVars, callerVars, outerVars>>

\* faulty variant of Finally: the handle is kept
FinallyLeak ==
    /\ \/ pc = "drain" /\ drained = Len(pending) /\ pc' = "returned"
       \/ pc = "finally" /\ pc' = "threw"
    /\ UNCHANGED <<run, rerun, links, finalParser, returnMarkdown,
                   finalSaveToDisk, processedCount, pending, drained,
                   updatedLinks, markdownResults, jsonResults, browser,
                   openTabs, origin, last, written, launches>>
    /\ UNCHANGED <<sharedVars, callerVars, outerVars, watchVars>>

\* lines 613-618: the finally block, after the loop or on the way out of an
\* exception
Finally ==
    /\ \/ pc = "drain" /\ drained = Len(pending) /\ pc' = "returned"
       \/ pc = "finally" /\ pc' = "threw"
    /\ browser' = FALSE
    /\ openTabs' = IF browser THEN 0 ELSE openTabs
    /\ UNCHANGED <<run, rerun, links, finalParser, returnMarkdown,
                   finalSaveToDisk, processedCount, pending, drained,
                   updatedLinks, markdownResults, jsonResults, origin, last,
                   written, launches>>
    /\ UNCHANGED <<sharedVars, callerVars, outerVars, watchVars>>

\* lines 626-649: one line of the jsdom branch, through processSingleLinkWithFetch
FetchLine ==
    /\ pc = "jsdom" /\ processedCount < Len(links)
    /\ \E r \in {processSingleLinkWithFetch(link, returnMarkdown,
                                             finalSaveToDisk, FALSE, env) :
                      env \in environmentsOf(
                                  processSingleLinkWithFetch(
                                      link, returnMarkdown, finalSaveToDisk,
                                      FALSE, AllOk).kind,
                                  finalSaveToDisk, FetchEnvironments,
                                  FetchEnvironmentsNoDisk)} :
              /\ Record(r, idx)
              /\ IF r.threw
                 THEN /\ pc' = "threw"
                      /\ UNCHANGED <<processedCount, updatedLinks, origin,
                                     markdownResults, jsonResults, watchVars>>
                 ELSE /\ pc' = pc
                      /\ processedCount' = idx
                      /\ Collect(r, idx)
    /\ UNCHANGED <<run, rerun, links, finalParser, returnMarkdown,
                   finalSaveToDisk, pending, drained, browser, openTabs,
                   launches>>
    /\ UNCHANGED <<sharedVars, callerVars, outerVars>>

\* lines 650-655: the loop of the jsdom branch is over
FetchDone ==
    /\ pc = "jsdom" /\ processedCount = Len(links)
    /\ pc' = "returned"
    /\ UNCHANGED <<run, rerun, links, finalParser, returnMarkdown,
                   finalSaveToDisk, processedCount, pending, drained,
                   updatedLinks, markdownResults, jsonResults, browser,
                   openTabs, origin, last, written, launches>>
    /\ UNCHANGED <<sharedVars, callerVars, outerVars, watchVars>>

\* lines 653-655: what the caller receives
returnValue ==
    IF returnMarkdown
    THEN [shape |-> "ProcessResult", updatedLinks |-> updatedLinks,
          markdown |-> markdownResults, records |-> <<>>]
    ELSE IF Len(jsonResults) > 0
    THEN [shape |-> "records", updatedLinks |-> <<>>, markdown |-> <<>>,
          records |-> jsonResults]
    ELSE [shape |-> "markers", updatedLinks |-> updatedLinks,
          markdown |-> <<>>, records |-> <<>>]

Next ==
    \/ Invoke
    \/ Reinvoke
    \/ AlreadyChecked
    \/ EmbedYouTube
    \/ SkipNonUrl
    \/ SkipBlockedDomain
    \/ SkipNonHtml
    \/ Enqueue
    \/ Dispatch
    \/ Drain
    \/ Finally
    \/ FetchLine
    \/ FetchDone

Spec == Init /\ [][Next]_<<vars, sharedVars, callerVars, outerVars, watchVars>>

\* the same machine, fed with the lines for the classifier
NextClassifier ==
    \/ InvokeClassifier
    \/ Reinvoke
    \/ AlreadyChecked
    \/ EmbedYouTube
    \/ SkipNonUrl
    \/ SkipBlockedDomain
    \/ SkipNonHtml
    \/ Enqueue
    \/ Dispatch
    \/ Drain
    \/ Finally
    \/ FetchLine
    \/ FetchDone

SpecClassifier == Init /\ [][NextClassifier]_<<vars, sharedVars, callerVars, outerVars, watchVars>>

(* ------------------------------ LavaServer ----------------------------- *)

\* what a request may carry as returnFormat: "none" stands for a missing
\* field and for any value other than "md" and "json"
RequestFormats == {"md", "json", "none"}

\* faulty variant of finalReturnFormat: the requested format is used whatever
\* the number of links
requestedFormat(count, asked, configured) ==
    IF asked \in {"md", "json"} THEN asked ELSE configured

\* lines 60-62 of server.ts
finalReturnFormat(count, asked, configured) ==
    IF count > 1 THEN "json"
    ELSE IF asked \in {"md", "json"} THEN asked ELSE configured

\* lines 33-70: a POST /api with a body that parses and a links array; the
\* handler calls processLinks with the effective parser, format and
\* saveToDisk
Post ==
    /\ pc = "idle"
    /\ \E batch \in Batches, asked \in RequestFormats, configured \in {"md", "json"},
          parser \in {"puppeteer", "jsdom"}, save \in BOOLEAN :
           /\ Start(batch, parser,
                    finalReturnFormat(Len(batch), asked, configured) = "md",
                    save, FALSE)
           /\ UNCHANGED outerVars
           /\ request' = [posted |-> TRUE, valid |-> TRUE, count |-> Len(batch),
                          returnFormat |-> asked, configured |-> configured]
    /\ UNCHANGED watchVars

\* lines 34-53 and 84-91: an empty body, a body that is not JSON, or links
\* that is not an array
Reject ==
    /\ pc = "idle"
    /\ pc' = "rejected"
    /\ UNCHANGED outerVars
    /\ request' = [NoRequest EXCEPT !.posted = TRUE]
    /\ UNCHANGED <<run, rerun, links, finalParser, returnMarkdown,
                   finalSaveToDisk, processedCount, pending, drained,
                   updatedLinks, markdownResults, jsonResults, browser,
                   openTabs, origin, last, written, launches>>
    /\ UNCHANGED <<sharedVars, watchVars>>

\* lines 72-91: the response, once the handling of the request is over;
\* shape tells what the body is: the raw document, JSON.stringify of an
\* array, of a ProcessResult object, or of an error object
response ==
    IF pc \in {"threw", "rejected"}
    THEN [status |-> 400, contentType |-> "application/json", shape |-> "error",
          text |-> Empty]
    ELSE IF returnMarkdown /\ Len(links) = 1
    THEN [status |-> 200, contentType |-> "text/markdown", shape |-> "text",
          text |-> IF Len(markdownResults) > 0 THEN markdownResults[1] ELSE Empty]
    ELSE [status |-> 200, contentType |-> "application/json",
          shape |-> IF returnValue.shape = "ProcessResult" THEN "object" ELSE "array",
          text |-> Empty]

NextServer ==
    \/ Post
    \/ Reject
    \/ AlreadyChecked
    \/ EmbedYouTube
    \/ SkipNonUrl
    \/ SkipBlockedDomain
    \/ SkipNonHtml
    \/ Enqueue
    \/ Dispatch
    \/ Drain
    \/ Finally
    \/ FetchLine
    \/ FetchDone

SpecServer == Init /\ [][NextServer]_<<vars, sharedVars, callerVars, outerVars, watchVars>>

(* ------------------------------ FileWatcher ---------------------------- *)

\* the lines a user adds to the links file: a page and a video
WatchLines == {LineBare, LineVideo}

\* what one edit appends: up to MaxLines lines
Additions == UNION {[1..n -> WatchLines] : n \in 1..MaxLines}

\* lines 725-727 of utils.ts
shouldSkip(l) == trim(l) = Empty \/ isProcessed(l)

\* lines 337-342 of part_005: the test on each line of the file
isPendingLine(rawLine) ==
    /\ ~shouldSkip(trim(rawLine))
    /\ isValidHttpLink(sanitizeLink(trim(rawLine)))

\* lines 333-345 of part_005: the positions of the pending lines, in file
\* order
pendingOf(content) ==
    SelectSeq([i \in 1..Len(content) |-> i],
              LAMBDA i : isPendingLine(content[i]))

\* the links among the added lines
linksIn(added) == Len(SelectSeq(added, isPendingLine))

\* index.ts lines 35-45 and startWatching (lines 286-308 of part_005): the
\* daemon starts with its configuration and watches the links file
Watch ==
    /\ pc = "idle" /\ run = 0 /\ ~watcher.on /\ ~request.posted
    /\ \E parser \in {"puppeteer", "jsdom"}, save \in BOOLEAN :
          watcher' = [NoWatcher EXCEPT !.on = TRUE, !.parser = parser,
                                       !.saveToDisk = save]
    /\ UNCHANGED <<vars, sharedVars, callerVars, outerVars, file>>

\* the user appends lines to the file and saves it; the change handler
\* (lines 299-305) returns at once if the watcher wrote less than 500 ms ago,
\* else it calls processFile (lines 329-370), which reads the file, returns
\* if no line is pending, and else hands the pending lines to processLinks
\* with the callback.  Each edit starts one invocation at most, so MaxRuns
\* bounds the edits.  An edit made while a call of processFile is in
\* progress and outside the 500 ms starts a second call on the same
\* processor, which reads the added links: interleaved invocations are
\* followed in SpecShared, and such edits are not taken here.
Change ==
    /\ watcher.on /\ watcher.edits < MaxRuns
    /\ IF watcher.cycle THEN watcher.recent ELSE pc = "idle"
    /\ \E added \in Additions :
          LET content == file \o added
              queue == pendingOf(content)
          IN  /\ file' = content
              /\ IF watcher.recent
                 THEN /\ watcher' = [watcher EXCEPT
                                        !.edits = @ + 1,
                                        !.fresh = @ + linksIn(added)]
                      /\ UNCHANGED <<vars, sharedVars>>
                 ELSE IF queue = <<>>
                 THEN /\ watcher' = [watcher EXCEPT !.edits = @ + 1]
                      /\ UNCHANGED <<vars, sharedVars>>
                 ELSE /\ Start([k \in 1..Len(queue) |-> content[queue[k]]],
                               watcher.parser, TRUE, watcher.saveToDisk, FALSE)
                      /\ watcher' = [watcher EXCEPT
                                        !.edits = @ + 1, !.cycle = TRUE,
                                        !.lines = content, !.read = content,
                                        !.pending = queue, !.fresh = 0]
    /\ UNCHANGED <<callerVars, outerVars>>

\* 500 ms pass without a write of the watcher
Tick ==
    /\ watcher.recent
    /\ watcher' = [watcher EXCEPT !.recent = FALSE]
    /\ UNCHANGED <<vars, sharedVars, callerVars, outerVars, file>>

\* lines 352-369 of part_005: processLinks has returned or thrown, the error
\* is logged, processFile is over
Settle ==
    /\ watcher.cycle /\ pc \in {"returned", "threw"}
    /\ pc' = "idle"
    /\ watcher' = [watcher EXCEPT !.cycle = FALSE, !.pending = <<>>]
    /\ UNCHANGED <<run, rerun, links, finalParser, returnMarkdown,
                   finalSaveToDisk, processedCount, pending, drained,
                   updatedLinks, markdownResults, jsonResults, browser,
                   openTabs, origin, last, written, launches>>
    /\ UNCHANGED <<sharedVars, callerVars, outerVars, file>>

\* what the event loop and the clock do without the user
WatchProgress ==
    \/ Watch
    \/ Tick
    \/ Settle
    \/ EmbedYouTube
    \/ Enqueue
    \/ Dispatch
    \/ Drain
    \/ Finally
    \/ FetchLine
    \/ FetchDone

NextWatch ==
    \/ Change
    \/ WatchProgress

\* the event loop runs every continuation that is ready and the clock
\* advances; the user is free never to edit the file again
SpecWatch ==
    /\ Init
    /\ [][NextWatch]_<<vars, sharedVars, callerVars, outerVars, watchVars>>
    /\ WF_<<vars, sharedVars, callerVars, outerVars, watchVars>>(WatchProgress)

(* ----------------------- FileWatcher, poll mode ------------------------ *)

\* the lines of a polled file: a page, a video, a document that is no page
PollLines == {LineBare, LineVideo, LinePdf}

\* the polled files: up to MaxLines lines
PollFiles == UNION {[1..n -> PollLines] : n \in 1..MaxLines}

\* line 266 of part_005: the matches of /(https?:\/\/[^\s]+)/g in a line, from
\* position i on
RECURSIVE bareUrls(_, _)
bareUrls(s, i) ==
    IF i > Len(s) THEN <<>>
    ELSE IF s[i] \in HttpTokens
    THEN <<SubSeq(s, i, runEnd(s, i, WhiteSpace))>>
            \o bareUrls(s, runEnd(s, i, WhiteSpace) + 1)
    ELSE bareUrls(s, i + 1)

\* lines 247-284 of part_005, for lines that hold no link of the form
\* [text](url): the bare URLs that are valid and not on a blocked host, in
\* the order of the file; raw and sanitized are both the URL
RECURSIVE extractLinksFromMarkdown(_)
extractLinksFromMarkdown(content) ==
    IF content = <<>> THEN <<>>
    ELSE SelectSeq(bareUrls(Head(content), 1),
                   LAMBDA url : isValidHttpLink(url) /\ ~isBlockedDomain(url))
            \o extractLinksFromMarkdown(Tail(content))

\* line 377 of part_005
newLinks(found, processed) ==
    SelectSeq(found, LAMBDA url : url \notin processed)

\* lines 372-390 of part_005: the file is read, the links not in
\* processedLinks are handed to processLinks with the callback; w is the
\* watcher as the call finds it.  earlier collects the links the invocation
\* before reported as processed.
processMarkdownFile(w, content) ==
    LET queue == newLinks(extractLinksFromMarkdown(content), w.processedLinks)
    IN  IF queue = <<>>
        THEN /\ watcher' = w
             /\ UNCHANGED <<vars, sharedVars>>
        ELSE /\ Start(queue, w.parser, TRUE, w.saveToDisk, FALSE)
             /\ watcher' = [w EXCEPT
                               !.cycle = TRUE,
                               !.earlier = @ \cup {links[origin[k]] :
                                                      k \in 1..Len(origin)}]

\* index.ts lines 46-51 and startPollingMarkdownFile (lines 311-327): the
\* polled file is there, the first call of processMarkdownFile is made
StartPolling ==
    /\ pc = "idle" /\ run = 0 /\ ~watcher.on /\ ~request.posted
    /\ \E parser \in {"puppeteer", "jsdom"}, save \in BOOLEAN,
          content \in PollFiles :
          /\ file' = content
          /\ processMarkdownFile(
                 [NoWatcher EXCEPT !.on = TRUE, !.mode = "poll",
                                   !.parser = parser, !.saveToDisk = save],
                 content)
    /\ UNCHANGED <<callerVars, outerVars>>

\* lines 322-324: the interval timer fires.  The calls of the timer are
\* taken here when no call is in progress.
Poll ==
    /\ watcher.on /\ watcher.mode = "poll" /\ ~watcher.cycle
    /\ pc = "idle" /\ run < MaxRuns
    /\ processMarkdownFile(watcher, file)
    /\ UNCHANGED <<callerVars, outerVars, file>>

NextPoll ==
    \/ StartPolling
    \/ Poll
    \/ Settle
    \/ EmbedYouTube
    \/ SkipNonHtml
    \/ Enqueue
    \/ Dispatch
    \/ Drain
    \/ Finally
    \/ FetchLine
    \/ FetchDone

SpecPoll == Init /\ [][NextPoll]_<<vars, sharedVars, callerVars, outerVars, watchVars>>

(* ---------------- processLinks, interleaved invocations ----------------- *)

\* the value an invocation ends with
ended(i) == IF inv[i].failed THEN "threw" ELSE "returned"

\* lines 487-588 and 619-621: a caller invokes processLinks; the
\* classification loop leaves n lines in the queue (none under jsdom), and
\* with an empty queue the invocation returns without touching the browser
Call(i) ==
    /\ inv[i].pc = "idle" /\ inv[i].calls < MaxCalls
    /\ \E n \in 0..MaxItems :
          inv' = [inv EXCEPT ![i] =
                     [pc |-> IF n = 0 THEN "returned" ELSE "initialize",
                      own |-> 0, left |-> n, failed |-> FALSE,
                      calls |-> inv[i].calls + 1]]
    /\ UNCHANGED <<handle, live, instances>>

\* lines 19-21: initializePuppeteer returns the handle if there is one; else
\* it goes on to its first await
Initialize(i) ==
    /\ inv[i].pc = "initialize"
    /\ inv' = [inv EXCEPT ![i].pc = IF handle # 0 THEN "drain" ELSE "launching",
                          ![i].own = handle]
    /\ UNCHANGED <<handle, live, instances>>

\* lines 24-144: the executable is searched and the browser launched; on
\* success the new instance is stored in this.browser and returned, on
\* failure the exception leaves processLinks (line 590 is outside the try)
LaunchBrowser(i) ==
    /\ inv[i].pc = "launching"
    /\ \E launched \in BOOLEAN :
          IF launched /\ instances < MaxInstances
          THEN /\ instances' = instances + 1
               /\ live' = live \cup {instances + 1}
               /\ handle' = instances + 1
               /\ inv' = [inv EXCEPT ![i].pc = "drain",
                                     ![i].own = instances + 1]
          ELSE /\ inv' = [inv EXCEPT ![i].pc = "threw", ![i].failed = TRUE]
               /\ UNCHANGED <<handle, live, instances>>

\* lines 593-612: one item of the queue is handed to
\* processSingleLinkWithPuppeteer with the local `browser`; the call returns
\* (from the render attempt or its fallback) or throws
RenderItem(i) ==
    /\ inv[i].pc = "drain" /\ inv[i].left > 0
    /\ \E threw \in BOOLEAN :
          inv' = [inv EXCEPT ![i].left = IF threw THEN @ ELSE @ - 1,
                             ![i].failed = threw,
                             ![i].pc = IF threw THEN "finally" ELSE "drain"]
    /\ UNCHANGED <<handle, live, instances>>

\* lines 613-615: the finally block is entered and closes whatever
\* this.browser refers to
CloseBrowser(i) ==
    /\ \/ inv[i].pc = "drain" /\ inv[i].left = 0
       \/ inv[i].pc = "finally"
    /\ IF handle # 0
       THEN /\ live' = live \ {handle}
            /\ inv' = [inv EXCEPT ![i].pc = "closing"]
       ELSE /\ inv' = [inv EXCEPT ![i].pc = ended(i)]
            /\ UNCHANGED live
    /\ UNCHANGED <<handle, instances>>

\* line 616, after the await of close(): this.browser = null
ResetHandle(i) ==
    /\ inv[i].pc = "closing"
    /\ handle' = 0
    /\ inv' = [inv EXCEPT ![i].pc = ended(i)]
    /\ UNCHANGED <<live, instances>>

\* the caller has its answer and may invoke processLinks again
Answer(i) ==
    /\ inv[i].pc \in {"returned", "threw"}
    /\ inv' = [inv EXCEPT ![i].pc = "idle", ![i].own = 0, ![i].left = 0,
                          ![i].failed = FALSE]
    /\ UNCHANGED <<handle, live, instances>>

Calls == \E i \in Invocations : Call(i) /\ UNCHANGED <<vars, callerVars, outerVars, watchVars>>
Initializes == \E i \in Invocations : Initialize(i) /\ UNCHANGED <<vars, callerVars, outerVars, watchVars>>
Launches == \E i \in Invocations : LaunchBrowser(i) /\ UNCHANGED <<vars, callerVars, outerVars, watchVars>>
Renders == \E i \in Invocations : RenderItem(i) /\ UNCHANGED <<vars, callerVars, outerVars, watchVars>>
Closes == \E i \in Invocations : CloseBrowser(i) /\ UNCHANGED <<vars, callerVars, outerVars, watchVars>>
Resets == \E i \in Invocations : ResetHandle(i) /\ UNCHANGED <<vars, callerVars, outerVars, watchVars>>
Answers == \E i \in Invocations : Answer(i) /\ UNCHANGED <<vars, callerVars, outerVars, watchVars>>

NextShared ==
    \/ Calls
    \/ Initializes
    \/ Launches
    \/ Renders
    \/ Closes
    \/ Resets
    \/ Answers

SpecShared == Init /\ [][NextShared]_<<vars, sharedVars, callerVars, outerVars, watchVars>>

(* ------------- FileWatcher, interleaved calls of processFile ------------ *)

\* lines 299-305 of part_005 with processFile (329-357): a change of the
\* links file is notified, after an edit of the user; the handler returns if
\* the watcher wrote less than 500 ms ago, else it calls processFile, which
\* invokes processLinks on the watcher's processor.  Nothing in the handler
\* tells whether an earlier call is still in progress.  The notification of
\* the watcher's own write arrives within the 500 ms and is dropped.
ChangeCalls ==
    /\ watcher.on /\ ~watcher.recent
    /\ \E i \in Invocations : Call(i)
    /\ UNCHANGED <<vars, callerVars, outerVars, watchVars>>

\* lines 358-365 of part_005 after an item of the queue: the callback writes
\* the file and sets lastWriteTime
WatchRenders ==
    /\ watcher.on
    /\ \E i \in Invocations :
          /\ RenderItem(i)
          /\ watcher' = [watcher EXCEPT
                            !.recent = @ \/ inv'[i].left < inv[i].left]
    /\ UNCHANGED <<vars, callerVars, outerVars, file>>

NextWatchShared ==
    \/ Watch
    \/ Tick
    \/ ChangeCalls
    \/ Initializes
    \/ Launches
    \/ WatchRenders
    \/ Closes
    \/ Resets
    \/ Answers

SpecWatchShared ==
    Init /\ [][NextWatchShared]_<<vars, sharedVars, callerVars, outerVars, watchVars>>

(* ----------------------- the legacy watcher scripts -------------------- *)

\* the lines of the links file of a legacy script: a link, a link done, a
\* line that is no link
LegacyLines == {LineBare, LineDone, LineNote}

\* the links files: up to MaxLines lines that are not blank
LegacyFiles == UNION {[1..n -> LegacyLines] : n \in 0..MaxLines}

LegacyScripts == {"index.js", "server.ts"}

\* src/index.js lines 66-69: the leading "- [ ]", "- [x]" or "- " goes
stripCheckbox(text) ==
    LET boxed(c) == Len(text) >= 5 /\ SubSeq(text, 1, 5) = <<"-", " ", "[", c, "]">>
        first == IF boxed("x") \/ boxed(" ")
                 THEN trimStart(SubSeq(text, 6, Len(text)))
                 ELSE text
        second == IF first # <<>> /\ Head(first) = "-"
                  THEN trimStart(Tail(first))
                  ELSE first
    IN  trim(second)

\* the link of a line: src/index.js lines 66-69, src/server.ts lines 142, 173
legacyTask(script, text) ==
    IF script = "index.js" THEN stripCheckbox(text) ELSE stripDecoration(text)

\* src/server.ts line 143, for the tokens of this model: one URL and nothing
\* after it
legacyValidHttpLink(candidate) ==
    Len(candidate) = 1 /\ candidate[1] \in HttpTokens

\* a handler that passed the guard: where it stands, the lines it read, the
\* lines it will write, the index of the loop
newHandler(read) ==
    [stage |-> "launch", links |-> read, updatedLinks |-> read, i |-> 1]

\* src/index.js lines 27-43, src/server.ts lines 146-156: a change handler
\* from its entry to its first await; l is the script as the handler finds it
enterHandler(l) ==
    IF l.isProcessing
    THEN [l EXCEPT !.skipped = @ + 1]
    ELSE IF l.script = "index.js" /\ l.file = <<>>
    THEN [l EXCEPT !.isProcessing = FALSE]
    ELSE [l EXCEPT !.isProcessing = TRUE,
                   !.handlers = Append(@, newHandler(l.file))]

\* the sequence without its h-th element
without(s, h) == SubSeq(s, 1, h - 1) \o SubSeq(s, h + 1, Len(s))

\* an await of handler h rejects outside the try of the loop: the handler
\* ends there, nothing after the await runs.  No one handles the rejection
\* of the handler's promise; stays tells whether the runtime keeps the
\* process (a warning) or ends it.
rejected(h, stays) ==
    legacy' = [legacy EXCEPT !.handlers = without(@, h), !.alive = stays]

\* the script is started on a links file; src/server.ts line 258 calls
\* processLinks at once, src/index.js waits for a change
LegacyStart ==
    /\ pc = "idle" /\ run = 0 /\ ~watcher.on /\ ~request.posted
    /\ ~legacy.on /\ ~plugin.on
    /\ \E script \in LegacyScripts, content \in LegacyFiles :
          LET started == [NoLegacy EXCEPT !.on = TRUE, !.script = script,
                                          !.file = content]
          IN  legacy' = IF script = "server.ts" THEN enterHandler(started)
                        ELSE started
    /\ UNCHANGED <<vars, sharedVars, callerVars, watchVars, plugin>>

\* src/index.js line 26, src/server.ts lines 253-256: chokidar reports a
\* change of the links file, the user's or the script's own
LegacyChange ==
    /\ legacy.on /\ legacy.alive /\ legacy.changes < MaxCalls
    /\ \E content \in LegacyFiles :
          legacy' = enterHandler([legacy EXCEPT !.file = content,
                                                !.changes = @ + 1])
    /\ UNCHANGED <<vars, sharedVars, callerVars, watchVars, plugin>>

\* src/index.js lines 49-52, src/server.ts lines 158-161
LegacyLaunch ==
    /\ legacy.alive
    /\ \E h \in 1..Len(legacy.handlers) :
          /\ legacy.handlers[h].stage = "launch"
          /\ \/ legacy' = [legacy EXCEPT !.handlers[h].stage = "page"]
             \/ \E stays \in BOOLEAN : rejected(h, stays)
    /\ UNCHANGED <<vars, sharedVars, callerVars, watchVars, plugin>>

\* src/index.js line 53, src/server.ts line 162
LegacyPage ==
    /\ legacy.alive
    /\ \E h \in 1..Len(legacy.handlers) :
          /\ legacy.handlers[h].stage = "page"
          /\ \/ legacy' = [legacy EXCEPT !.handlers[h].stage = "loop"]
             \/ \E stays \in BOOLEAN : rejected(h, stays)
    /\ UNCHANGED <<vars, sharedVars, callerVars, watchVars, plugin>>

\* src/index.js lines 56-163, src/server.ts lines 165-241: one turn of the
\* loop.  A line done is passed over, and in server.ts a line that is no
\* link; else the page is clipped and the line marked, or the try catches
\* the failure and the line stays
LegacyLink ==
    /\ legacy.alive
    /\ \E h \in 1..Len(legacy.handlers) :
          LET handler == legacy.handlers[h]
              entry == trim(handler.links[handler.i])
              url == legacyTask(legacy.script, entry)
              passed == \/ startsWith(entry, ProcessedPrefix)
                        \/ legacy.script = "server.ts"
                              /\ ~legacyValidHttpLink(url)
              clipped == {ok \in BOOLEAN : ok => legacyValidHttpLink(url)}
          IN  /\ handler.stage = "loop" /\ handler.i <= Len(handler.links)
              /\ \E ok \in IF passed THEN {FALSE} ELSE clipped :
                    legacy' = [legacy EXCEPT
                        !.handlers[h].i = @ + 1,
                        !.handlers[h].updatedLinks[handler.i] =
                            IF ok THEN markAsProcessed(url) ELSE @]
    /\ UNCHANGED <<vars, sharedVars, callerVars, watchVars, plugin>>

\* src/index.js line 166, src/server.ts line 243: the links file is written
LegacyWrite ==
    /\ legacy.alive
    /\ \E h \in 1..Len(legacy.handlers) :
          LET handler == legacy.handlers[h]
          IN  /\ handler.stage = "loop" /\ handler.i > Len(handler.links)
              /\ \/ legacy' = [legacy EXCEPT !.file = handler.updatedLinks,
                                             !.handlers[h].stage = "close"]
                 \/ \E stays \in BOOLEAN : rejected(h, stays)
    /\ UNCHANGED <<vars, sharedVars, callerVars, watchVars, plugin>>

\* src/index.js lines 169-172, src/server.ts lines 244-246
LegacyClose ==
    /\ legacy.alive
    /\ \E h \in 1..Len(legacy.handlers) :
          /\ legacy.handlers[h].stage = "close"
          /\ \/ legacy' = [legacy EXCEPT !.handlers = without(@, h),
                                         !.isProcessing = FALSE]
             \/ \E stays \in BOOLEAN : rejected(h, stays)
    /\ UNCHANGED <<vars, sharedVars, callerVars, watchVars, plugin>>

NextLegacy ==
    \/ LegacyStart
    \/ LegacyChange
    \/ LegacyLaunch
    \/ LegacyPage
    \/ LegacyLink
    \/ LegacyWrite
    \/ LegacyClose

SpecLegacy ==
    Init /\ [][NextLegacy]_<<vars, sharedVars, callerVars, watchVars, outerVars>>

(* -------------------------- the Obsidian plugin ------------------------ *)

\* the lines of the bookmark file: a link, a link under a bullet, a link
\* with its box checked
PluginLines == {LineBare, LineVideo, LineDone}

\* the bookmark files: up to MaxLines lines
PluginFiles == UNION {[1..n -> PluginLines] : n \in 1..MaxLines}

\* lines 199-231 of part_003, for lines that hold no link of the form
\* [text](url): the bare URLs of the line-th line on, valid and not on a
\* blocked host, each with the number of its line
RECURSIVE pluginLinksFrom(_, _)
pluginLinksFrom(content, at) ==
    IF at > Len(content) THEN <<>>
    ELSE LET found == SelectSeq(bareUrls(content[at], 1),
                          LAMBDA u : isValidHttpLink(u) /\ ~isBlockedDomain(u))
         IN  [n \in 1..Len(found) |-> [url |-> found[n], line |-> at]]
                \o pluginLinksFrom(content, at + 1)

\* the regex /\[\s*[xX]\s*\]/ of lines 649 and 689 of part_003
hasCheckedBox(s) ==
    \E a, b, c \in 1..Len(s) :
        /\ a < b /\ b < c
        /\ s[a] = "[" /\ s[b] \in {"x", "X"} /\ s[c] = "]"
        /\ \A n \in (a + 1)..(c - 1) : n = b \/ s[n] \in WhiteSpace

\* lines 683-694 of part_003
isLinkChecked(content, found) ==
    LET lineAt == IF found.line > Len(content) THEN Len(content) ELSE found.line
    IN  hasCheckedBox(content[lineAt])

\* String.prototype.includes
includes(s, part) ==
    \E n \in 1..(Len(s) - Len(part) + 1) : SubSeq(s, n, n + Len(part) - 1) = part

\* lines 652-668 of part_003: the line with its box checked
checkedLine(s) ==
    LET body == trimStart(s)
        bulleted == body # <<>> /\ Head(body) \in {"-", "*", "+"}
        rest == trimStart(Tail(body))
        boxed == /\ Len(rest) >= 2 /\ rest[1] = "["
                 /\ \E c \in 2..Len(rest) :
                       /\ rest[c] = "]"
                       /\ \A n \in 2..(c - 1) : rest[n] \in WhiteSpace \cup {"x", "X"}
        close == CHOOSE c \in 2..Len(rest) :
                    /\ rest[c] = "]"
                    /\ \A n \in 2..(c - 1) : rest[n] \in WhiteSpace \cup {"x", "X"}
        bullet == SubSeq(s, 1, Len(s) - Len(rest))
    IN  IF ~bulleted THEN <<"-", " ", "[", "x", "]", " ">> \o trim(s)
        ELSE IF boxed
        THEN bullet \o <<"[", "x", "]", " ">>
                \o trimStart(SubSeq(rest, close + 1, Len(rest)))
        ELSE bullet \o <<"[", "x", "]", " ">> \o rest

\* lines 641-678 of part_003, markLinkChecked: every line that holds the URL
\* and no checked box gets its box checked
markedContent(content, url) ==
    [n \in 1..Len(content) |->
        IF ~hasCheckedBox(content[n]) /\ includes(content[n], url)
        THEN checkedLine(content[n])
        ELSE content[n]]

\* lines 403-406 of part_003: after a failure markLinkChecked is called with
\* the number of the line where the URL belongs, and looks for the digits
\* of that number in the lines.  No token of this model holds a digit.
markedByNumber(content, number) == content

\* lines 376-381 of part_003: the links that are not in processedLinks and
\* whose line has no checked box
pendingLinks(content, processed) ==
    SelectSeq(pluginLinksFrom(content, 1),
              LAMBDA found : /\ found.url \notin processed
                             /\ ~isLinkChecked(content, found))

\* lines 319-320 and 352 of part_003: processLinks from its entry to the
\* await of vault.read; p is the plugin as the call finds it
beginRun(p) ==
    [p EXCEPT !.started = @ + 1,
              !.runs = Append(@, [stage |-> "read", pending |-> <<>>, i |-> 0])]

\* lines 388-392 and 424-444 of part_003: the turn of the loop for
\* pending[i] up to the await of requestUrl; the request is on its way
sendLink(p, r, i) ==
    [p EXCEPT !.runs[r].stage = "await",
              !.runs[r].i = i,
              !.sent[p.runs[r].pending[i].url] = @ + 1]

\* lines 162-182 of part_003: the plugin is loaded on a vault that has the
\* bookmark file, the first pass starts
PluginLoad ==
    /\ pc = "idle" /\ run = 0 /\ ~watcher.on /\ ~request.posted
    /\ ~legacy.on /\ ~plugin.on
    /\ \E content \in PluginFiles :
          plugin' = beginRun([NoPlugin EXCEPT !.on = TRUE, !.file = content])
    /\ UNCHANGED <<vars, sharedVars, callerVars, watchVars, legacy>>

\* lines 174-178 of part_003: the user runs the command
PluginCommand ==
    /\ plugin.on /\ plugin.started < MaxRuns
    /\ plugin' = beginRun(plugin)
    /\ UNCHANGED <<vars, sharedVars, callerVars, watchVars, legacy>>

\* lines 284-291 and 262-281 of part_003: the user changes the bookmark
\* file, the timer is set anew
PluginModify ==
    /\ plugin.on /\ plugin.edits < MaxCalls
    /\ \E content \in PluginFiles :
          plugin' = [plugin EXCEPT !.file = content, !.edits = @ + 1,
                                   !.timer = TRUE]
    /\ UNCHANGED <<vars, sharedVars, callerVars, watchVars, legacy>>

\* lines 277-280 of part_003: the timer fires
PluginTimer ==
    /\ plugin.on /\ plugin.timer /\ plugin.started < MaxRuns
    /\ plugin' = beginRun([plugin EXCEPT !.timer = FALSE])
    /\ UNCHANGED <<vars, sharedVars, callerVars, watchVars, legacy>>

\* lines 352-392 of part_003: vault.read resolves, the pending links are
\* chosen, the request for the first one is sent
PluginRead ==
    /\ \E r \in 1..Len(plugin.runs) :
          LET chosen == pendingLinks(plugin.file, plugin.processedLinks)
          IN  /\ plugin.runs[r].stage = "read"
              /\ plugin' =
                    IF chosen = <<>>
                    THEN [plugin EXCEPT !.runs = without(@, r)]
                    ELSE sendLink([plugin EXCEPT !.runs[r].pending = chosen],
                                  r, 1)
    /\ UNCHANGED <<vars, sharedVars, callerVars, watchVars, legacy>>

\* lines 392-396 and 400-406 of part_003: the server answers or the request
\* fails; the link goes into processedLinks, markLinkChecked is called
PluginReply ==
    /\ \E r \in 1..Len(plugin.runs), ok \in BOOLEAN :
          LET this == plugin.runs[r]
          IN  /\ this.stage = "await"
              /\ plugin' = [plugin EXCEPT
                    !.processedLinks = @ \cup {this.pending[this.i].url},
                    !.runs[r].stage = IF ok THEN "mark" ELSE "markNumber"]
    /\ UNCHANGED <<vars, sharedVars, callerVars, watchVars, legacy>>

\* lines 397-411 of part_003: markLinkChecked resolves; a file it changed
\* sets the timer (lines 284-291); the loop goes on to the next pending
\* link or the run ends
PluginMark ==
    /\ \E r \in 1..Len(plugin.runs) :
          LET this == plugin.runs[r]
              found == this.pending[this.i]
              after == IF this.stage = "mark"
                         THEN markedContent(plugin.file, found.url)
                         ELSE markedByNumber(plugin.file, found.line)
              marked == [plugin EXCEPT
                            !.file = after,
                            !.timer = @ \/ after # plugin.file]
          IN  /\ this.stage \in {"mark", "markNumber"}
              /\ plugin' =
                    IF this.i < Len(this.pending)
                    THEN sendLink(marked, r, this.i + 1)
                    ELSE [marked EXCEPT !.runs = without(@, r)]
    /\ UNCHANGED <<vars, sharedVars, callerVars, watchVars, legacy>>

NextPlugin ==
    \/ PluginLoad
    \/ PluginCommand
    \/ PluginModify
    \/ PluginTimer
    \/ PluginRead
    \/ PluginReply
    \/ PluginMark

SpecPlugin ==
    Init /\ [][NextPlugin]_<<vars, sharedVars, callerVars, watchVars, outerVars>>

(* ------------------------------ properties ----------------------------- *)

\* the line handled last, as processLinks received it and trimmed
lastLine == trim(links[last.at])

\* text `part` occurs in text `s`
contains(s, part) ==
    \E i \in 0..(Len(s) - Len(part)) : SubSeq(s, i + 1, i + Len(part)) = part

\* the handling produced nothing a caller could take for a document
noDocument(did) ==
    /\ ~did.hasFrontmatter
    /\ did.body = Empty
    /\ did.markdown = Empty
    /\ did.writes = <<>>

\* the markers a line can come back as: itself, or its link checked off, in
\* canonical form if it is a video
markersOf(l) ==
    LET t == sanitizeLink(trim(l))
    IN  {trim(l), markAsProcessed(t),
         markAsProcessed(canonicalizeYouTubeUrl(t, getYouTubeId(t)))}

\* C1: on normal return, under either strategy, the i-th entry of the marker
\* sequence is the marker of the i-th input line.
C1_OrderPreserved ==
    pc = "returned" =>
        \A k \in 1..Len(updatedLinks) :
            /\ origin[k] = k
            /\ k <= Len(links) /\ updatedLinks[k] \in markersOf(links[k])

\* C2: on normal return the marker sequence has exactly as many entries as
\* the input sequence.
C2_LengthPreserved ==
    pc = "returned" => Len(updatedLinks) = Len(links)

\* a puppeteer batch of two lines returned, one line skipped in the
\* classification loop and one taken from the queue
C2_Witness ==
    /\ pc = "returned" /\ finalParser = "puppeteer"
    /\ Len(links) = 2 /\ Len(pending) = 1 /\ drained = 1
    /\ Len(updatedLinks) = 2

\* C3: a line that already carries the prefix "- [x]" causes no title lookup,
\* no render, no fetch, no extraction and no file write, never enters the
\* queue of the render strategy, and yields no document, under either
\* strategy.
C3_MarkedLineUntouched ==
    /\ \A k \in 1..Len(pending) :
          ~startsWith(trim(links[pending[k]]), ProcessedPrefix)
    /\ (last.at > 0 /\ startsWith(lastLine, ProcessedPrefix)) =>
          /\ ~last.did.threw
          /\ last.did.titleCalls = 0
          /\ last.did.renderCalls = 0
          /\ last.did.fetchCalls = 0
          /\ last.did.extractCalls = 0
          /\ last.did.writeCalls = 0
          /\ last.did.updatedLink = lastLine
          /\ noDocument(last.did)

\* a checked-off line went through processSingleLinkWithFetch with saving on
C3_Witness ==
    /\ finalParser = "jsdom" /\ finalSaveToDisk
    /\ last.at = 2 /\ startsWith(lastLine, ProcessedPrefix)
    /\ last.did.kind = "processed"

C5_FallbackThenStub ==
    (finalParser = "puppeteer" /\ last.at > 0 /\ last.did.renderFailed) =>
        /\ last.did.renderCalls = 1
        /\ last.did.fetchCalls = 1
        /\ last.did.fetchFailed =>
              /\ ~last.did.threw
              /\ last.did.kind = "stub"
              /\ contains(last.did.body, <<StubPhrase>>)
              /\ contains(last.did.body, sanitizeLink(lastLine))
              /\ last.did.updatedLink = markAsProcessed(sanitizeLink(lastLine))
              /\ startsWith(last.did.updatedLink, ProcessedPrefix)

\* C6: under the jsdom strategy a failed attempt leaves the line as it was,
\* produces neither stub nor document, and is not repeated.
C6_DirectFailureUnmarked ==
    (finalParser = "jsdom" /\ last.at > 0 /\ last.did.fetchFailed) =>
        /\ ~last.did.threw
        /\ last.did.kind = "failed"
        /\ last.did.updatedLink = lastLine
        /\ ~startsWith(last.did.updatedLink, ProcessedPrefix)
        /\ noDocument(last.did)
        /\ last.did.fetchCalls = 1
        /\ last.did.renderCalls = 0

\* a fetch of the jsdom strategy failed before extraction, with saving on
C6_Witness ==
    /\ finalParser = "jsdom" /\ finalSaveToDisk
    /\ last.at > 0 /\ last.did.fetchFailed /\ last.did.extractCalls = 0
    /\ pc = "returned" /\ updatedLinks[last.at] = lastLine

\* C7: under the render strategy, a task whose render attempt raised an error
\* or extracted no body ends as an extracted document or as a stub, and its
\* line is checked off.
C7_FailedRenderAlwaysMarked ==
    (finalParser = "puppeteer" /\ last.at > 0 /\ last.did.renderFailed) =>
        /\ last.did.kind \in {"article", "stub"}
        /\ startsWith(last.did.updatedLink, ProcessedPrefix)

C10_BrowserCreatedOnceIfNeeded ==
    /\ launches \in {0, 1}
    /\ launches = 1 =>
          /\ finalParser = "puppeteer"
          /\ processedCount = Len(links)
          /\ pending # <<>>
    /\ pc \in {"drain", "finally", "returned"} =>
          (launches = 1 <=> pending # <<>>)
    /\ browser => launches = 1

\* a batch of two lines returned after one launch, one of its lines queued
C10_Witness ==
    /\ pc = "returned" /\ launches = 1
    /\ Len(links) = 2 /\ Len(pending) = 1
    /\ last.did.kind = "article" /\ ~last.did.renderFailed

\* C11: a LinkProcessor never has more than one live browser instance, also
\* when invocations of processLinks interleave, and an invocation with items
\* left to render holds a browser that has not been closed.
C11_OneLiveBrowser ==
    /\ Cardinality(live) <= 1
    /\ \A i \in Invocations :
          (inv[i].pc = "drain" /\ inv[i].left > 0) => inv[i].own \in live

\* the link of the line handled last
lastTask == sanitizeLink(lastLine)

\* the line handled last was not checked off when it came in
lastUnchecked == last.at > 0 /\ ~startsWith(lastLine, ProcessedPrefix)

\* a write was attempted for the line and failed
writeFailed(did) == did.writeCalls > Len(did.writes)

\* C12: a failed write of a task's document (article, video embed or stub)
\* does not make processLinks throw.
C12_WriteFailureIsolated ==
    (last.at > 0 /\ writeFailed(last.did)) =>
        ~last.did.threw /\ pc \notin {"finally", "threw"}

\* the URLs of the model whose host is a blocked domain or a subdomain of one
BlockedUrls == {UrlDocs, UrlSub}

inputOf(k) == trim(links[origin[k]])

ExtensionUrls == {UrlPdf, UrlPng, UrlClip, UrlHandlePng}

\* the link is a single video: it has a video id and is not a channel
videoSingle(t) == getYouTubeId(t) # "" /\ ~isYouTubeChannel(t)

\* the line came back as it was, with nothing attempted for it
skippedUntouched(did) ==
    /\ did.updatedLink = lastLine
    /\ ~startsWith(did.updatedLink, ProcessedPrefix)
    /\ did.titleCalls = 0
    /\ did.renderCalls = 0
    /\ did.fetchCalls = 0
    /\ did.writeCalls = 0
    /\ noDocument(did)

\* C15 as stated: a line whose link ends in a listed extension is skipped and
\* not checked off under either strategy, also on a video host.
C15_ExtensionSkipped ==
    (lastUnchecked /\ lastTask \in ExtensionUrls) =>
        last.did.kind = "nonHtmlExt" /\ skippedUntouched(last.did)

\* C15, amended: a line whose link ends in a listed extension and is not a
\* single video is skipped and not checked off under either strategy, and
\* is never queued.
C15_ExtensionSkippedUnlessVideo ==
    /\ \A k \in 1..Len(pending) :
          sanitizeLink(trim(links[pending[k]])) \notin ExtensionUrls
    /\ (lastUnchecked /\ lastTask \in ExtensionUrls /\ ~videoSingle(lastTask)) =>
          last.did.kind = "nonHtmlExt" /\ skippedUntouched(last.did)

\* an image under a channel handle of the video host went through the fetch
\* strategy
C15_Witness ==
    /\ pc = "returned" /\ finalParser = "jsdom" /\ finalSaveToDisk
    /\ links = <<UrlHandlePng>> /\ updatedLinks = <<UrlHandlePng>>
    /\ last.did.kind = "nonHtmlExt"

\* the classification of a line in the stated order
classOf(l) ==
    LET t == sanitizeLink(l)
    IN  IF startsWith(l, ProcessedPrefix) THEN "processed"
        ELSE IF ~isValidHttpLink(t) THEN "nonUrl"
        ELSE IF videoSingle(t) THEN "video"
        ELSE IF isBlockedDomain(t) THEN "blocked"
        ELSE IF hasNonHtmlExtension(t) THEN "nonHtmlExt"
        ELSE "eligible"

\* the classification the pipeline acted on
classTaken(did) ==
    IF did.kind \in {"processed", "nonUrl", "blocked", "nonHtmlExt"} THEN did.kind
    ELSE IF did.titleCalls > 0 THEN "video"
    ELSE "eligible"

\* C16: every line is handled according to the one classification the
\* stated order gives it, under both strategies; a line that is no valid
\* URL is never handled as a video.
C16_FixedOrder ==
    last.at > 0 => classTaken(last.did) = classOf(lastLine)

\* the URLs of the model that point at a single video, all with id "abc"
VideoSingleUrls == {UrlShort, UrlWatch, UrlEmbed, UrlShorts, UrlLive}

\* C17: the marker produced for a single-video link is the processed prefix
\* followed by https://www.youtube.com/watch?v=<id>, whatever the form of
\* the link.
C17_VideoCanonical ==
    (lastUnchecked /\ lastTask \in VideoSingleUrls /\ ~last.did.threw) =>
        /\ last.did.kind = "embed"
        /\ last.did.updatedLink = markAsProcessed(<<WatchPrefix, "abc">>)

\* a /live/ link on m.youtube.com was embedded in the classification loop
C17_Witness ==
    /\ pc = "returned" /\ finalParser = "puppeteer"
    /\ links = <<UrlLive>> /\ last.did.kind = "embed"
    /\ updatedLinks = <<markAsProcessed(UrlWatch)>>

\* the URLs of the model that point at a channel
ChannelUrls == {UrlChannel, UrlHandleV}

\* C18: a channel link, also one with a video id, is not embedded: no title
\* lookup, and one attempt of the strategy chosen; when extraction succeeds
\* the marker holds the link as given.
C18_ChannelEligible ==
    (lastUnchecked /\ lastTask \in ChannelUrls) =>
        /\ last.did.titleCalls = 0
        /\ last.did.kind \in {"article", "nonHtmlType", "failed", "stub", "threw"}
        /\ IF finalParser = "puppeteer"
           THEN last.did.renderCalls = 1
           ELSE last.did.renderCalls = 0 /\ last.did.fetchCalls = 1
        /\ last.did.kind = "article" =>
              last.did.updatedLink = markAsProcessed(lastTask)

\* a channel handle with a video id in the query was rendered and extracted
C18_Witness ==
    /\ pc = "returned" /\ finalParser = "puppeteer"
    /\ links = <<UrlHandleV>> /\ pending = <<1>>
    /\ last.did.kind = "article" /\ ~last.did.renderFailed

\* C19: when the title lookup of a video fails, the embed is built with the
\* placeholder title and the line is checked off; nothing is thrown unless
\* the write of the embed fails.
C19_TitleFailureSwallowed ==
    (last.at > 0 /\ last.did.titleFailed) =>
        /\ last.did.titleCalls = 1
        /\ last.did.threw => writeFailed(last.did)
        /\ ~last.did.threw =>
              /\ last.did.kind = "embed"
              /\ startsWith(last.did.updatedLink, ProcessedPrefix)
              /\ last.did.hasFrontmatter
              /\ last.did.frontmatter[1] = <<"title", "string", <<"YouTube", " ", "Video">> >>
              /\ contains(last.did.body, <<"YouTube", " ", "Video">>)
              /\ finalSaveToDisk =>
                    /\ Len(last.did.writes) = 1
                    /\ contains(last.did.writes[1].content, <<"YouTube", " ", "Video">>)

\* a video was embedded and saved although its title lookup failed
C19_Witness ==
    /\ last.at > 0 /\ last.did.titleFailed /\ last.did.kind = "embed"
    /\ finalSaveToDisk /\ Len(written) = 1
    /\ pc = "returned"

\* the line is one of those the pipeline skips
skippedLine(l) == classOf(l) \in {"processed", "nonUrl", "blocked", "nonHtmlExt"}

\* C20: in markdown return mode the Markdown array has one entry per input
\* line, in input order, the empty string for every skipped line.
C20_MarkdownPerLine ==
    (pc = "returned" /\ returnMarkdown) =>
        /\ Len(markdownResults) = Len(links)
        /\ \A k \in 1..Len(links) :
              skippedLine(trim(links[k])) =>
                  k <= Len(markdownResults) /\ markdownResults[k] = Empty

\* C22: when the effective saveToDisk flag is false, an invocation writes no
\* file and attempts no write (no directory is created, no file is written)
\* on any path: article, video embed, fallback stub.
C22_NoDiskNoWrite ==
    ~finalSaveToDisk =>
        /\ written = <<>>
        /\ last.did.writes = <<>>
        /\ last.did.writeCalls = 0

\* without saving, a batch returned a video embed and the stub of a page whose
\* render and fallback fetch both failed
C22_Witness ==
    /\ pc = "returned" /\ ~finalSaveToDisk /\ ~returnMarkdown
    /\ Len(jsonResults) = 2
    /\ last.did.kind = "stub"
    /\ \E k \in 1..2 : getYouTubeId(sanitizeLink(trim(jsonResults[k].url))) # ""

\* the Markdown documents a handling produced: the files it wrote and the
\* document it returned
markdownForms(did) ==
    {did.writes[k].content : k \in 1..Len(did.writes)}
        \cup (IF did.hasMarkdown /\ did.markdown # Empty THEN {did.markdown} ELSE {})

\* the handling produced a document
producedDocument(did) == did.kind \in {"article", "embed", "stub"}

FrontmatterKeys ==
    {"title", "source", "url", "author", "published", "clipped", "tags",
     "description", "image", "favicon"}

\* the keys of a structured frontmatter, in order
structuredKeys(frontmatter) == [k \in 1..Len(frontmatter) |-> frontmatter[k][1]]

isFrontmatterKey(token) == token \in FrontmatterKeys

\* the keys of the frontmatter block of a Markdown document, in order
markdownKeys(document) == SelectSeq(document, isFrontmatterKey)

\* the keys of a sequence, as a set
keySet(keys) == {keys[k] : k \in 1..Len(keys)}

\* C25: structured frontmatter omits empty fields entirely, while a
\* persisted Markdown file carries all ten fields, the empty ones as "".
C25_FieldOmission ==
    producedDocument(last.did) =>
        /\ \A k \in 1..Len(last.did.frontmatter) :
              last.did.frontmatter[k][3] # Empty
        /\ \A k \in 1..Len(last.did.writes) :
              keySet(markdownKeys(last.did.writes[k].content)) = FrontmatterKeys

\* C26: every document (article, video embed, stub) carries at least title,
\* source, url and clipped in its frontmatter, in the structured form and in
\* the Markdown form.
C26_RequiredFields ==
    producedDocument(last.did) =>
        /\ {"title", "source", "url", "clipped"}
              \subseteq keySet(structuredKeys(last.did.frontmatter))
        /\ \A document \in markdownForms(last.did) :
              {"title", "source", "url", "clipped"}
                  \subseteq keySet(markdownKeys(document))

\* position of a key in an order
place(key, order) == CHOOSE p \in 1..Len(order) : order[p] = key

\* the keys all belong to the order and follow it
follows(keys, order) ==
    /\ \A k \in 1..Len(keys) : \E p \in 1..Len(order) : order[p] = keys[k]
    /\ \A j, k \in 1..Len(keys) :
          j < k => place(keys[j], order) < place(keys[k], order)

\* every frontmatter of the handling, structured and Markdown, follows the order
keysFollow(did, order) ==
    /\ follows(structuredKeys(did.frontmatter), order)
    /\ \A document \in markdownForms(did) : follows(markdownKeys(document), order)

\* C27, as stated: the keys come in the order title, source, author,
\* published, clipped, tags, description, image, favicon, url.
C27_KeyOrderUrlLast ==
    producedDocument(last.did) =>
        keysFollow(last.did,
                   <<"title", "source", "author", "published", "clipped",
                     "tags", "description", "image", "favicon", "url">>)

\* C27, amended: the keys come in the order title, source, url, author,
\* published, clipped, tags, description, image, favicon (omitted keys
\* aside), in every structured frontmatter and every Markdown document.
C27_KeyOrder ==
    producedDocument(last.did) =>
        keysFollow(last.did,
                   <<"title", "source", "url", "author", "published",
                     "clipped", "tags", "description", "image", "favicon">>)

\* an article was written to disk and returned as Markdown
C27_Witness ==
    /\ last.did.kind = "article"
    /\ Len(last.did.writes) = 1 /\ last.did.hasMarkdown
    /\ Len(structuredKeys(last.did.frontmatter)) >= 5
    /\ Len(markdownKeys(last.did.markdown)) >= 5

\* value of a key in a structured frontmatter
fieldOf(frontmatter, key) ==
    LET at == CHOOSE k \in 1..Len(frontmatter) : frontmatter[k][1] = key
    IN  frontmatter[at][3]

\* C28: the video embed has source "https://youtube.com", the canonical watch
\* URL, a tag list with a video-specific tag and the thumbnail of the video
\* id, in the structured frontmatter and in the Markdown document; its body
\* is one Markdown image reference to the canonical URL.
C28_EmbedDocument ==
    last.did.kind = "embed" =>
        LET id == getYouTubeId(lastTask)
            canonical == <<WatchPrefix, id>>
            thumbnail == <<"https://img.youtube.com/vi/", id, "/hqdefault.jpg">>
            title == IF last.did.titleFailed THEN <<"YouTube", " ", "Video">>
                     ELSE <<"Talk">>
        IN  /\ fieldOf(last.did.frontmatter, "source") = <<"https://youtube.com">>
            /\ fieldOf(last.did.frontmatter, "url") = canonical
            /\ \E k \in 1..Len(fieldOf(last.did.frontmatter, "tags")) :
                  fieldOf(last.did.frontmatter, "tags")[k] = "youtube"
            /\ fieldOf(last.did.frontmatter, "image") = thumbnail
            /\ last.did.body = <<"![">> \o title \o <<"](">> \o canonical \o <<")">>
            /\ \A document \in markdownForms(last.did) :
                  /\ contains(document, <<"source", ": ", "\"", "https://", "youtube.com", "\"">>)
                  /\ contains(document, <<"url", ": ", "\"">> \o canonical \o <<"\"">>)
                  /\ contains(document, <<"image", ": ", "\"">> \o thumbnail \o <<"\"">>)
                  /\ contains(document, <<"  - ", "youtube">>)

\* C29: processLinks returns the marker lines in both return modes, in
\* structured mode together with the records.
C29_MarkersReturned ==
    pc = "returned" => returnValue.updatedLinks = updatedLinks

\* the handling of the request is over
answered == request.posted /\ pc \in {"returned", "threw", "rejected"}

\* C23: a POST /api with more than one link always gets a JSON response, a
\* successful one the array of structured mode, also when returnFormat "md"
\* is requested or Markdown is the configured default.
C23_ManyLinksJson ==
    (answered /\ request.count > 1) =>
        /\ response.contentType = "application/json"
        /\ (response.status = 200 => response.shape = "array")

\* two links were posted with returnFormat "md" on a server whose default is
\* Markdown, and processLinks returned
C23_Witness ==
    /\ answered /\ pc = "returned" /\ request.count = 2
    /\ request.returnFormat = "md" /\ request.configured = "md"
    /\ response.shape = "array"

\* the request asks for Markdown, by its field or by the configured default
markdownMode ==
    \/ request.returnFormat = "md"
    \/ request.returnFormat = "none" /\ request.configured = "md"

\* C24: a successful POST /api responds with raw Markdown exactly when one
\* link is requested in Markdown mode, and with a JSON array in every other
\* case, a request with zero links included.
C24_ResponseShape ==
    (answered /\ pc = "returned") =>
        IF request.count = 1 /\ markdownMode
        THEN response.contentType = "text/markdown" /\ response.shape = "text"
        ELSE response.contentType = "application/json" /\ response.shape = "array"

\* the positions of the file as processFile read it carry the line read or a
\* marker of that line
linesKept ==
    \A i \in 1..Len(watcher.read) :
        /\ i <= Len(file)
        /\ file[i] = watcher.read[i] \/ file[i] \in markersOf(watcher.read[i])

\* C21: every call of the completion callback passes the input position of
\* the line it reports, so that in watch mode each file line read by
\* processFile holds what it held or the marker of the link it held, and no
\* other line is changed.
C21_MarkerOnItsLine ==
    watcher.cycle =>
        /\ \A k \in 1..Len(origin) : origin[k] = k
        /\ linesKept

\* the links the user added that no call of processFile has read
unpicked == watcher.fresh + watcher.erased

\* the watcher is at rest: no call of processFile is in progress and its last
\* write is more than 500 ms old, so that nothing happens until the file is
\* edited again
atRest == watcher.on /\ ~watcher.cycle /\ ~watcher.recent

\* C30: in watch mode every link the user adds to the file is eventually
\* read by a call of processFile, whenever the edit is made: once the watcher
\* is at rest, no added link is left unread.
C30_PickedAtRest == atRest => unpicked = 0

\* C33: every tab opened for a render attempt is closed before the handling
\* of that line ends, on every path, so that no tab is open between two
\* lines of the queue.
C33_TabsClosed == pc \in {"drain", "finally"} => openTabs = 0

\* how far an invocation has come: the lines the loop has consumed, the
\* items of the queue handled, and the stage reached
stage(p) ==
    CASE p \in {"classify", "jsdom"} -> 0
      [] p = "drain" -> 1
      [] p = "finally" -> 2
      [] OTHER -> 3

progress == processedCount + drained + stage(pc)

running == pc \in {"classify", "jsdom", "drain", "finally"}

\* C40: every step of an invocation, each external call having returned or
\* failed, brings the invocation strictly closer to its end, which it reaches
\* after a number of steps bounded by the number of input lines; and the
\* handling of a line makes at most one render attempt and at most one fetch
\* attempt.
C40_Terminates ==
    [][running =>
          /\ progress' > progress
          /\ progress' <= 2 * Len(links) + 3
          /\ links' = links
          /\ last'.did.renderCalls <= 1
          /\ last'.did.fetchCalls <= 1]_<<vars, sharedVars, callerVars, watchVars>>

\* a batch of two lines has returned under the render strategy, the last
\* line handled after a failed render attempt and its fallback fetch
C40_Witness ==
    /\ pc = "returned" /\ finalParser = "puppeteer" /\ Len(links) = 2
    /\ last.did.renderCalls = 1 /\ last.did.fetchCalls = 1

\* the lines handled so far in this invocation
handled == processedCount + drained

\* C32: within one invocation the lines are handled one at a time, the files
\* of a line written before the next line is taken, and the lines of the
\* queue are handled in their input order.
C32_OneAtATimeInOrder ==
    [][running =>
          /\ handled' <= handled + 1
          /\ \A k \in 1..(Len(pending') - 1) : pending'[k] < pending'[k + 1]
          /\ drained' = drained + 1 =>
                /\ last'.at = pending[drained + 1]
                /\ origin' = Append(origin, pending[drained + 1])
                /\ \A k \in 1..drained : origin[Len(origin) - drained + k] = pending[k]
          /\ Len(written') = Len(written) + Len(last'.did.writes)
                \/ (last' = last /\ written' = written)
      ]_<<vars, sharedVars, callerVars, watchVars>>

\* a queue of two pages has been drained
C32_Witness ==
    /\ pc = "returned" /\ finalParser = "puppeteer"
    /\ Len(pending) = 2 /\ drained = 2 /\ pending[1] < pending[2]

\* the host is youtu.be, youtube.com or a subdomain of youtube.com
isVideoHost(host) ==
    host = YouTuBe \/ host = YouTubeCom \/ endsWith(host, <<".">> \o YouTubeCom)

\* C34: a link is taken as a single video only when its host is youtu.be,
\* youtube.com or a subdomain of youtube.com; a link on any other host is
\* not rewritten to a youtube.com watch URL.
C34_VideoHostsOnly ==
    (lastUnchecked /\ last.did.kind = "embed") =>
        /\ ParseURL(lastTask).ok
        /\ isVideoHost(ParseURL(lastTask).hostname)

\* the lines of the batch hold pairwise different links
differentLinks ==
    \A i, j \in 1..Len(links) :
        i # j => sanitizeLink(trim(links[i])) # sanitizeLink(trim(links[j]))

\* C37: with saveToDisk enabled, the file written for one line of a batch is
\* not written again for a different line of the batch.
C37_OwnDocument ==
    (finalSaveToDisk /\ differentLinks) =>
        \A i, j \in 1..Len(written) : i # j => written[i] # written[j]

\* C36: in watch mode a line the user adds to the links file while a batch
\* is running is still in the file when the batch is over: no write of the
\* watcher removes it.
C36_EditsKept == (watcher.on /\ ~watcher.cycle) => watcher.erased = 0

\* the invocation of processLinks made by a call of processFile has not
\* ended
inProgress(i) == inv[i].pc \in {"initialize", "launching", "drain", "finally", "closing"}

\* C31: in watch mode no call of processFile starts a processing cycle on the
\* processor while the cycle of an earlier call is in progress.
C31_NoOverlap ==
    watcher.on => \A i, j \in Invocations : (inProgress(i) /\ inProgress(j)) => i = j

\* C35: in poll mode no poll cycle hands processLinks a link that an earlier
\* poll cycle of the same watcher has processed.
C35_NotResubmitted ==
    (watcher.on /\ watcher.mode = "poll" /\ watcher.cycle)
        => \A k \in 1..Len(links) : links[k] \notin watcher.earlier

\* C38: in the legacy watcher scripts at most one cycle runs at a time, and
\* when no cycle runs the guard is released and the script is there to
\* process the next change of the file.
C38_GuardReleased ==
    legacy.on =>
        /\ Len(legacy.handlers) <= 1
        /\ legacy.handlers = <<>> => (legacy.alive /\ ~legacy.isProcessing)

\* C39: the Obsidian plugin sends no link to the lava server more than once
\* in a session.
C39_SentOnce ==
    plugin.on => \A url \in DOMAIN plugin.sent : plugin.sent[url] <= 1
====
